---- MODULE Spec2Model ----
(***************************************************************************)
(* Sparse-retrieval core of qdrant_api_backend: Reciprocal Rank Fusion     *)
(* (app/services/rrf_fusion.py), the hybrid dense+sparse query             *)
(* (app/qdrant_service.py, app/routers/search_*.py) and the sparse         *)
(* vectorizers (app/korean_sparse_embedding.py,                            *)
(* app/multilingual_sparse_embedding.py).                                  *)
(*                                                                         *)
(* Fusion scores are exact rationals: a score s is held as the integer     *)
(* s * Scale(k), where Scale(k) is the least common multiple of k + r for  *)
(* every rank r the model can produce.                                     *)
(***************************************************************************)
EXTENDS Integers, Sequences, FiniteSets, TLC

\* ------------------------------------------------------------------ bounds

\* Longest ranked list handed to a direct fuse call.
MaxLen == 2
\* Most lists handed to a direct fuse call.
MaxLists == 2
\* Largest limit of a hybrid request.
MaxLimit == 2

\* ------------------------------------------------------------- constants

\* RRFFusion.__init__ / reciprocal_rank_fusion default k.
DefaultK == 60

\* Result identifiers (point ids) the index can return.
Ids == {"x", "y", "z", "w"}

\* The identifiers of the lists of direct fuse calls.
DirectIds == {"x", "y", "z"}

\* k values of direct fuse calls and of hybrid requests
\* (DenseSparseRRFRequest allows 1..100).
KValues == {1, DefaultK}

\* Ways native similarity scores can be attached to a ranked list.
Scorings == {"similarity", "inverted"}

\* ------------------------------------------------------------- sequences

Range(s) == {s[i] : i \in 1..Len(s)}

\* Sequences over S without repetition, of length at most n: what one
\* search call returns (each point at most once).
RankedSeqs(S, n) ==
  UNION {{s \in [1..m -> S] : \A i, j \in 1..m : i # j => s[i] # s[j]} : m \in 0..n}

\* Sequences over S of length at most n.
SeqsUpTo(S, n) == UNION {[1..m -> S] : m \in 0..n}

Min(a, b) == IF a < b THEN a ELSE b

RECURSIVE Gcd(_, _)
Gcd(a, b) == IF b = 0 THEN a ELSE Gcd(b, a % b)

Lcm(a, b) == (a \div Gcd(a, b)) * b

\* Python's s[:n].
Prefix(s, n) == SubSeq(s, 1, Min(n, Len(s)))

\* ------------------------------------------------------------ RRF fusion

\* Longest list any call of the model fuses: a ranked list holds each of
\* the ids at most once.
MaxRank == Cardinality(Ids)

RECURSIVE ScaleUpTo(_, _)
ScaleUpTo(k, r) == IF r = 0 THEN 1 ELSE Lcm(ScaleUpTo(k, r - 1), k + r)

\* The common denominator of every 1/(k + r), r in 1..MaxRank.
Scale(k) == ScaleUpTo(k, MaxRank)

\* A result object as a search returns it.
Result(id, native) == [point_id |-> id, score |-> native]

\* Native similarity score of the entry at 1-based rank r of list li.
NativeScore(scoring, li, r) ==
  IF scoring = "similarity" THEN 100 - 10 * r - li ELSE 10 * r + li

\* The result objects of ranked id lists under a scoring.
WithScores(idLists, scoring) ==
  [li \in 1..Len(idLists) |->
     [r \in 1..Len(idLists[li]) |-> Result(idLists[li][r], NativeScore(scoring, li, r))]]

\* RRFFusion._get_id
GetId(result) == result.point_id

\* Mutant of RRFContribution: ranks counted from 0.
RRFContributionZeroBased(k, rank) == Scale(k) \div (k + rank - 1)

\* rrf_contribution = 1.0 / (self.k + rank), as a multiple of 1/Scale(k).
RRFContribution(k, rank) == Scale(k) \div (k + rank)

\* Mutant of IndexOfId: the membership test never finds the id.
IndexOfIdNeverFound(items, id) == 0

\* Position of id in the insertion-ordered items, 0 when absent.
IndexOfId(items, id) ==
  IF \E i \in 1..Len(items) : items[i].id = id
  THEN CHOOSE i \in 1..Len(items) : items[i].id = id
  ELSE 0

\* Mutant of Accumulate: the native score weighs the contribution.
AccumulateScoreWeighted(items, result, rank, k) ==
  LET id == GetId(result)
      c == RRFContribution(k, rank) * result.score
      at == IndexOfId(items, id)
  IN IF at = 0
     THEN Append(items, [id |-> id, score |-> c, result |-> result])
     ELSE [items EXCEPT ![at].score = @ + c]

\* The loop body of fuse. items is rrf_scores together with result_map, in
\* the dict's insertion order: one entry per id, holding the running score
\* and the first result object seen for the id.
Accumulate(items, result, rank, k) ==
  LET id == GetId(result)
      c == RRFContribution(k, rank)
      at == IndexOfId(items, id)
  IN IF at = 0
     THEN Append(items, [id |-> id, score |-> 0 + c, result |-> result])
     ELSE [items EXCEPT ![at].score = @ + c]

\* for rank, result in enumerate(result_list, start=1)
RECURSIVE AccumulateList(_, _, _, _)
AccumulateList(items, result_list, rank, k) ==
  IF rank > Len(result_list) THEN items
  ELSE AccumulateList(Accumulate(items, result_list[rank], rank, k),
                      result_list, rank + 1, k)

\* Mutant of AccumulateLists: nothing is accumulated unless at least two
\* lists are given.
RECURSIVE AccumulateListsPairOnly(_, _, _, _)
AccumulateListsPairOnly(items, result_lists, li, k) ==
  IF Len(result_lists) < 2 \/ li > Len(result_lists) THEN items
  ELSE AccumulateListsPairOnly(AccumulateList(items, result_lists[li], 1, k),
                               result_lists, li + 1, k)

\* for result_list in result_lists
RECURSIVE AccumulateLists(_, _, _, _)
AccumulateLists(items, result_lists, li, k) ==
  IF li > Len(result_lists) THEN items
  ELSE AccumulateLists(AccumulateList(items, result_lists[li], 1, k),
                       result_lists, li + 1, k)

\* Insert e into the descending sequence s after every entry whose score
\* is greater than or equal to e's: entries of equal score keep their order.
RECURSIVE InsertDesc(_, _)
InsertDesc(s, e) ==
  IF s = <<>> THEN <<e>>
  ELSE IF Head(s).score >= e.score THEN <<Head(s)>> \o InsertDesc(Tail(s), e)
  ELSE <<e>> \o s

RECURSIVE StableSortDescFrom(_, _, _)
StableSortDescFrom(sorted, items, i) ==
  IF i > Len(items) THEN sorted
  ELSE StableSortDescFrom(InsertDesc(sorted, items[i]), items, i + 1)

RECURSIVE Reverse(_)
Reverse(s) == IF s = <<>> THEN <<>> ELSE Reverse(Tail(s)) \o <<Head(s)>>

\* Mutants of SortedByScore: ascending sort then reversed (ties swap), and
\* a sort that forgot reverse=True.
SortedByScoreReversedAscending(items) ==
  StableSortDescFrom(<<>>, Reverse(items), 1)
SortedByScoreAscending(items) ==
  Reverse(StableSortDescFrom(<<>>, Reverse(items), 1))

\* sorted(rrf_scores.items(), key=lambda x: x[1], reverse=True): a stable
\* sort, reverse=True keeps the original order of equal keys.
SortedByScore(items) == StableSortDescFrom(<<>>, items, 1)

\* RRFFusion(k).fuse(result_lists, id_key="point_id"): the list of
\* (result, rrf_score) tuples.
Fuse(result_lists, k) ==
  LET sorted_results == SortedByScore(AccumulateLists(<<>>, result_lists, 1, k))
  IN [i \in 1..Len(sorted_results) |->
        [result |-> sorted_results[i].result, rrf |-> sorted_results[i].score]]

\* reciprocal_rank_fusion(dense_results, sparse_results, k, id_key)
ReciprocalRankFusion(dense_results, sparse_results, k) ==
  Fuse(<<dense_results, sparse_results>>, k)

\* ------------------------------------------------------------- text

\* Characters of the modelled texts:
\*   "Hn"  a Hangul syllable (U+AC00..U+D7A3) the analyzer tags as a noun
\*   "Hj"  a Hangul syllable the analyzer tags as a particle
\*   "Ht"  a code point of U+D7A4..U+D7AF (Hangul block, not a syllable)
\*   "LA"  a Latin capital letter, "la" its lower case
\*   "SP"  the space U+0020, "NL" a newline
TextChars == {"Hn", "Hj", "LA", "SP", "NL"}
DetectChars == TextChars \cup {"Ht"}

\* Longest text handed to a single-text routine.
MaxTextLen == 4
\* Most texts of one batch.
MaxBatch == 2

\* The texts of a batch.
BatchTexts ==
  { <<>>, <<"SP", "SP">>, <<"Hn">>, <<"Hj">>, <<"LA">>, <<"Hn", "LA", "LA", "LA">> }

\* str.isspace
IsWhitespace(c) == c \in {"SP", "NL"}

\* text.replace(' ', '')
ReplaceSpaces(text) == SelectSeq(text, LAMBDA c : c # "SP")

RECURSIVE LStrip(_)
LStrip(text) ==
  IF text # <<>> /\ IsWhitespace(Head(text)) THEN LStrip(Tail(text)) ELSE text

\* text.strip()
Strip(text) == Reverse(LStrip(Reverse(LStrip(text))))

\* text.split(): the maximal runs of non-whitespace characters.
RECURSIVE SplitFrom(_, _, _)
SplitFrom(text, i, word) ==
  IF i > Len(text)
  THEN (IF word = <<>> THEN <<>> ELSE <<word>>)
  ELSE IF IsWhitespace(text[i])
       THEN (IF word = <<>> THEN <<>> ELSE <<word>>) \o SplitFrom(text, i + 1, <<>>)
       ELSE SplitFrom(text, i + 1, Append(word, text[i]))

Split(text) == SplitFrom(text, 1, <<>>)

\* str.lower
Lower(form) == [i \in 1..Len(form) |-> IF form[i] = "LA" THEN "la" ELSE form[i]]

\* ------------------------------------------------------- language router

\* '가' <= c <= '힯'
InKoreanRange(c) == c \in {"Hn", "Hj", "Ht"}

\* MultilingualSparseEmbedding._is_korean_text; the ratio p/q >= 0.3 is
\* compared as 10 * p >= 3 * q.
IsKoreanText(text) ==
  IF text = <<>> THEN FALSE
  ELSE LET korean_chars == Len(SelectSeq(text, InKoreanRange))
           total_chars == Len(ReplaceSpaces(text))
       IN IF total_chars = 0 THEN FALSE
          ELSE 10 * korean_chars >= 3 * total_chars

\* ------------------------------------------------------ fixed-point reals

\* Weights are held as integers in units of 1/FP.
FP == 10 ^ 4

RECURSIVE ISqrtIn(_, _, _)
ISqrtIn(n, lo, hi) ==
  IF lo >= hi THEN lo
  ELSE LET mid == (lo + hi + 1) \div 2
       IN IF mid * mid <= n THEN ISqrtIn(n, mid, hi) ELSE ISqrtIn(n, lo, mid - 1)

\* floor(sqrt(n)), n < 2^31.
ISqrt(n) == ISqrtIn(n, 0, 46340)

\* np.log(freq) in units of 1/FP.
LnFP(freq) ==
  CASE freq = 1 -> 0
    [] freq = 2 -> 6931
    [] freq = 3 -> 10986
    [] freq = 4 -> 13863
    [] freq = 5 -> 16094
    [] freq = 6 -> 17918
    [] freq = 7 -> 19459
    [] freq = 8 -> 20794

\* np.sqrt(n) in units of 1/FP.
SqrtFP(n) == ISqrt(n * FP * FP)

RECURSIVE SumOver(_, _)
SumOver(f, S) ==
  IF S = {} THEN 0
  ELSE LET x == CHOOSE y \in S : TRUE IN f[x] + SumOver(f, S \ {x})

\* The sum of the squared weights of a sparse vector, in units of 1/FP^2.
NormSquared(vec) == SumOver([i \in DOMAIN vec |-> vec[i] * vec[i]], DOMAIN vec)

\* np.linalg.norm(values) in units of 1/FP.
NormFP(vec) == ISqrt(NormSquared(vec))

\* The empty mapping {}.
EmptyVec == <<>>

\* -------------------------------------------------- Korean sparse vectors

\* The analyzer's tag of a character, as the characters of the tag string.
TagOf(c) ==
  CASE c = "Hn" -> <<"N", "N", "G">>
    [] c = "Hj" -> <<"J", "K", "O">>
    [] c = "LA" -> <<"S", "L">>
    [] c = "la" -> <<"S", "L">>
    [] OTHER -> <<"S", "W">>

\* kiwi.tokenize(text): one morpheme per non-whitespace character.
KiwiTokenize(text) ==
  LET chars == SelectSeq(text, LAMBDA c : ~IsWhitespace(c))
  IN [i \in 1..Len(chars) |-> [form |-> <<chars[i]>>, tag |-> TagOf(chars[i])]]

\* str.startswith(prefix)
StartsWith(s, prefix) ==
  /\ Len(prefix) <= Len(s)
  /\ SubSeq(s, 1, Len(prefix)) = prefix

\* Mutant of IsAllowedTag: every nominal tag (N...) is let through.
IsAllowedTagAnyNominal(tag) ==
  \E prefix \in { <<"N">>, <<"V", "V">>, <<"V", "A">>, <<"M", "M">>,
                  <<"M", "A", "G">>, <<"X", "R">> } : StartsWith(tag, prefix)

\* tag.startswith(('NN', 'VV', 'VA', 'MM', 'MAG', 'XR'))
IsAllowedTag(tag) ==
  \E prefix \in { <<"N", "N">>, <<"V", "V">>, <<"V", "A">>, <<"M", "M">>,
                  <<"M", "A", "G">>, <<"X", "R">> } : StartsWith(tag, prefix)

\* The loop of _tokenize over the analyzer's tokens.
RECURSIVE FilterTokens(_, _)
FilterTokens(result, i) ==
  IF i > Len(result) THEN <<>>
  ELSE (IF IsAllowedTag(result[i].tag) THEN <<result[i].form>>
        ELSE IF StartsWith(result[i].tag, <<"S", "L">>) THEN <<Lower(result[i].form)>>
        ELSE <<>>) \o FilterTokens(result, i + 1)

\* How a call ends: it returns a token list or lets an exception out.
Returned(tokens) == [raised |-> FALSE, tokens |-> tokens]
Uncaught == [raised |-> TRUE, tokens |-> <<>>]

\* What self.kiwi.tokenize(text) does: it raises, or returns its result.
Analysis(raised, result) == [raised |-> raised, result |-> result]

\* Mutant of TokenizeOutcome: no except clause around the analyzer call.
TokenizeOutcomeUncaught(text, analysis) ==
  IF text = <<>> \/ Strip(text) = <<>> THEN Returned(<<>>)
  ELSE IF analysis.raised THEN Uncaught
  ELSE IF analysis.result = <<>> THEN Returned(<<>>)
  ELSE Returned(FilterTokens(analysis.result, 1))

\* KoreanSparseEmbedding._tokenize, given what the analyzer does on the
\* text: the early return, the try block, the except clause.
TokenizeOutcome(text, analysis) ==
  IF text = <<>> \/ Strip(text) = <<>> THEN Returned(<<>>)
  ELSE IF analysis.raised THEN Returned(Split(text))
  ELSE IF analysis.result = <<>> THEN Returned(<<>>)
  ELSE Returned(FilterTokens(analysis.result, 1))

\* The analyzer of a process on a text; kiwi_raises: it raises.
Analyze(text, kiwi_raises) ==
  Analysis(kiwi_raises, IF kiwi_raises THEN <<>> ELSE KiwiTokenize(text))

\* The token list of _tokenize; kiwi_raises: the analyzer raises on this
\* text.
Tokenize(text, kiwi_raises) ==
  TokenizeOutcome(text, Analyze(text, kiwi_raises)).tokens

\* Most morphemes of an analyzer result drawn freely.
MaxMorphemes == 3

\* Tags of the analyzer's tag set: nouns NNG NNP NNB, numeral NR, pronoun
\* NP, verb VV and its irregular form VV-I, adjective VA, auxiliary VX,
\* determiner MM, adverbs MAG MAJ, root XR, suffix XSN, foreign word SL,
\* symbol SW, particle JKO, ending EF.
KiwiTags ==
  { <<"N", "N", "G">>, <<"N", "N", "P">>, <<"N", "N", "B">>, <<"N", "R">>,
    <<"N", "P">>, <<"V", "V">>, <<"V", "V", "-", "I">>, <<"V", "A">>,
    <<"V", "X">>, <<"M", "M">>, <<"M", "A", "G">>, <<"M", "A", "J">>,
    <<"X", "R">>, <<"X", "S", "N">>, <<"S", "L">>, <<"S", "W">>,
    <<"J", "K", "O">>, <<"E", "F">> }

\* A surface form carrying the tag.
FormOf(tag) ==
  IF tag = <<"S", "L">> THEN <<"LA", "la">>
  ELSE IF tag = <<"S", "W">> THEN <<"Ht">>
  ELSE IF tag \in { <<"J", "K", "O">>, <<"E", "F">> } THEN <<"Hj">>
  ELSE <<"Hn">>

\* The tokens (form, tag) the analyzer can produce.
Morphemes == {[form |-> FormOf(tag), tag |-> tag] : tag \in KiwiTags}

\* A text the analyzer splits into the given morphemes.
RECURSIVE TextOf(_)
TextOf(result) ==
  IF result = <<>> THEN <<>> ELSE Head(result).form \o TextOf(Tail(result))

\* Seeds of the per-process string hash (PYTHONHASHSEED unset: drawn at
\* interpreter start).
HashSeeds == {0, 1}

CharCode(c) ==
  CASE c = "Hn" -> 1 [] c = "Hj" -> 2 [] c = "LA" -> 3 [] c = "la" -> 4 [] OTHER -> 5

RECURSIVE TermCode(_)
TermCode(term) ==
  IF term = <<>> THEN 0 ELSE CharCode(Head(term)) + 6 * TermCode(Tail(term))

Abs(n) == IF n < 0 THEN -n ELSE n

\* A 64-bit hash value sign * (hi * 2^31 + lo), 0 <= lo < 2^31, held in
\* parts: the value itself exceeds the checker's integers.
HashValue(v, hi) == [neg |-> v < 0, hi |-> hi, lo |-> Abs(v) * (2 ^ 28)]

\* hash(term) of the built-in str hash: a signed value that depends on the
\* term and on the process's seed.
PyHash(seed, term) ==
  IF seed = 0
  THEN HashValue(((3 * TermCode(term)) % 7) - 3, TermCode(term) % 4)
  ELSE HashValue(((5 * TermCode(term) + 1) % 7) - 3, (TermCode(term) + seed) % 4)

\* The largest index, 2^31 - 1.
MaxIndex == (2 ^ 30 - 1) * 2 + 1

\* Mutant of TermHash: abs left out and the remainder taken with the sign
\* of the hash (truncating division).
TermHashSigned(seed, term) ==
  IF PyHash(seed, term).neg THEN 0 - PyHash(seed, term).lo ELSE PyHash(seed, term).lo

\* term_hash = abs(hash(term)) % (2**31): the low 31 bits of the magnitude.
TermHash(seed, term) == PyHash(seed, term).lo

\* Mutant of TfValue: the raw count.
TfValueRaw(freq) == freq * FP

\* tf_value = 1.0 + np.log(freq) if freq > 0 else 0.0
TfValue(freq) == IF freq > 0 THEN FP + LnFP(freq) ELSE 0

\* term_freq as the dict's items in insertion order.
RECURSIVE TermFreq(_, _, _)
TermFreq(items, tokens, i) ==
  IF i > Len(tokens) THEN items
  ELSE LET at == IF \E j \in 1..Len(items) : items[j].term = tokens[i]
                 THEN CHOOSE j \in 1..Len(items) : items[j].term = tokens[i]
                 ELSE 0
       IN TermFreq(IF at = 0
                   THEN Append(items, [term |-> tokens[i], freq |-> 1])
                   ELSE [items EXCEPT ![at].freq = @ + 1],
                   tokens, i + 1)

\* sparse_dict[key] = value
DictSet(dict, key, value) ==
  [i \in DOMAIN dict \cup {key} |-> IF i = key THEN value ELSE dict[i]]

\* The weighting loop of transform: sublinear tf, length normalization,
\* the entry stored under the term's hash index.
RECURSIVE WeighTerms(_, _, _, _, _)
WeighTerms(sparse_dict, term_freq, i, doc_length, seed) ==
  IF i > Len(term_freq) THEN sparse_dict
  ELSE LET term_hash == TermHash(seed, term_freq[i].term)
           tf_value == TfValue(term_freq[i].freq)
           value == (tf_value * FP) \div SqrtFP(doc_length)
       IN WeighTerms(DictSet(sparse_dict, term_hash, value),
                     term_freq, i + 1, doc_length, seed)

\* Mutant of L2Normalize: the normalization step left out.
L2NormalizeSkipped(sparse_dict) == sparse_dict

\* The L2 normalization of transform.
L2Normalize(sparse_dict) ==
  IF DOMAIN sparse_dict = {} THEN sparse_dict
  ELSE LET norm == NormFP(sparse_dict)
       IN IF norm > 0
          THEN [i \in DOMAIN sparse_dict |-> (sparse_dict[i] * FP) \div norm]
          ELSE sparse_dict

\* The body of KoreanSparseEmbedding.transform after tokens = ...
WeighTokens(tokens, seed) ==
  IF tokens = <<>> THEN EmptyVec
  ELSE L2Normalize(WeighTerms(EmptyVec, TermFreq(<<>>, tokens, 1), 1, Len(tokens), seed))

\* KoreanSparseEmbedding.transform in a process with the given hash seed.
KoreanTransform(text, seed, kiwi_raises) ==
  WeighTokens(Tokenize(text, kiwi_raises), seed)

\* Most morphemes of a text whose nouns are drawn freely.
MaxTokens == 4

\* Nouns of one, two and three syllables as the analyzer returns them.
NounMorphemes ==
  {[form |-> form, tag |-> <<"N", "N", "G">>] :
     form \in { <<"Hn">>, <<"Hn", "Hn">>, <<"Hn", "Hn", "Hn">> }}

\* KoreanSparseEmbedding.batch_transform
KoreanBatchTransform(texts, seed, kiwi_raises) ==
  [i \in 1..Len(texts) |-> KoreanTransform(texts[i], seed, kiwi_raises)]

\* ------------------------------------------- fallback (FastEmbed BM25)

\* Index of a token in the fallback model: a hash of the token alone.
FastEmbedIndex(term) == 1000 + TermCode(term)

\* BM25 weight of a term with frequency tf in a document of doc_len
\* tokens (k = 1.2, b = 0.75, avg_len = 256), in units of 1/FP:
\* tf * (k + 1) / (tf + k * (1 - b + b * doc_len / avg_len)).
Bm25Weight(tf, doc_len) == (5632 * tf * FP) \div (2560 * tf + 768 + 9 * doc_len)

RECURSIVE Bm25Terms(_, _, _, _)
Bm25Terms(sparse_dict, term_freq, i, doc_len) ==
  IF i > Len(term_freq) THEN sparse_dict
  ELSE Bm25Terms(DictSet(sparse_dict, FastEmbedIndex(term_freq[i].term),
                         Bm25Weight(term_freq[i].freq, doc_len)),
                 term_freq, i + 1, doc_len)

\* One embedding of fastembed_embedder.embed(...), converted to a dict by
\* the zip loop: the lower-cased words of the text with their BM25 weights,
\* no entry for a text without a word.
FastEmbedToDict(text) ==
  LET words == Split(text)
      tokens == [i \in 1..Len(words) |-> Lower(words[i])]
  IN Bm25Terms(EmptyVec, TermFreq(<<>>, tokens, 1), 1, Len(tokens))

\* ------------------------------------------- multilingual sparse vectors

\* What can be wrong with the embedders of a process: nothing; the analyzer
\* raises on the text; the fallback embedder raises; the Korean embedder or
\* the fallback embedder failed to initialize (None); the fallback embedder
\* delivers weights that are zero, or negative.
Conditions ==
  {"healthy", "kiwi_raises", "fastembed_raises", "no_kiwi", "no_fastembed",
   "fastembed_zero", "fastembed_negative"}

\* A weight as the fallback embedder of the process delivers it.
Delivered(weight, cond) ==
  CASE cond = "fastembed_zero" -> 0
    [] cond = "fastembed_negative" -> 0 - weight
    [] OTHER -> weight

\* sparse_dict[int(idx)] = float(val) over the embedding the fallback
\* embedder of the process delivers for the text.
FastEmbedEmbed(text, cond) ==
  LET embedding == FastEmbedToDict(text)
  IN [idx \in DOMAIN embedding |-> Delivered(embedding[idx], cond)]

\* The sentinel single-entry vector {0: 1.0}.
SentinelVec == DictSet(EmptyVec, 0, FP)

\* The try block of MultilingualSparseEmbedding.transform.
TransformNonBlank(text, seed, cond) ==
  LET is_korean == IsKoreanText(text)
      sparse_dict == IF is_korean /\ cond # "no_kiwi"
                     THEN KoreanTransform(text, seed, cond = "kiwi_raises")
                     ELSE EmptyVec
  IN IF sparse_dict # EmptyVec THEN sparse_dict
     ELSE IF cond = "no_fastembed" THEN EmptyVec
     ELSE IF cond = "fastembed_raises" THEN EmptyVec
     ELSE FastEmbedEmbed(text, cond)

\* Mutant of MultilingualTransform: the sentinel substituted in the
\* vectorizer.
MultilingualTransformSentinel(text, seed, cond) ==
  IF text = <<>> \/ Strip(text) = <<>> THEN SentinelVec
  ELSE TransformNonBlank(text, seed, cond)

\* MultilingualSparseEmbedding.transform
MultilingualTransform(text, seed, cond) ==
  IF text = <<>> \/ Strip(text) = <<>> THEN EmptyVec
  ELSE TransformNonBlank(text, seed, cond)

\* korean_indices / non_korean_indices of the partition loop (1-based).
RECURSIVE PartitionIndices(_, _, _)
PartitionIndices(texts, i, korean) ==
  IF i > Len(texts) THEN <<>>
  ELSE (IF IsKoreanText(texts[i]) = korean THEN <<i>> ELSE <<>>)
       \o PartitionIndices(texts, i + 1, korean)

\* result[idx] = results[i] for i, idx in enumerate(indices) if i < len(results)
RECURSIVE WriteBack(_, _, _, _)
WriteBack(result, indices, results, i) ==
  IF i > Len(indices) THEN result
  ELSE WriteBack(IF i <= Len(results)
                 THEN [result EXCEPT ![indices[i]] = results[i]]
                 ELSE result,
                 indices, results, i + 1)

\* What can be wrong in a batch call: one of Conditions; the Korean
\* embedder's batch routine raises; the fallback embedder delivers one
\* embedding fewer than it was given texts.
BatchConditions == Conditions \cup {"korean_raises", "fastembed_short"}

\* The try block of batch_transform: whether it raised, and the result
\* list as far as it was put together.
BatchTry(texts, seed, cond) ==
  LET korean_indices == PartitionIndices(texts, 1, TRUE)
      non_korean_indices == PartitionIndices(texts, 1, FALSE)
      korean_texts == [i \in 1..Len(korean_indices) |-> texts[korean_indices[i]]]
      non_korean_texts ==
        [i \in 1..Len(non_korean_indices) |-> texts[non_korean_indices[i]]]
      korean_results ==
        IF korean_texts # <<>> /\ cond # "no_kiwi"
        THEN KoreanBatchTransform(korean_texts, seed, cond = "kiwi_raises")
        ELSE <<>>
      delivered == IF cond = "fastembed_short"
                   THEN Len(non_korean_texts) - 1
                   ELSE Len(non_korean_texts)
      non_korean_results ==
        IF non_korean_texts # <<>> /\ cond # "no_fastembed"
        THEN [i \in 1..delivered |-> FastEmbedEmbed(non_korean_texts[i], cond)]
        ELSE <<>>
      empty == [i \in 1..Len(texts) |-> EmptyVec]
  IN [raised |-> \/ korean_texts # <<>> /\ cond = "korean_raises"
                 \/ non_korean_texts # <<>> /\ cond = "fastembed_raises",
      result |-> WriteBack(WriteBack(empty, korean_indices, korean_results, 1),
                           non_korean_indices, non_korean_results, 1)]

\* Mutant of BatchExcept: no except clause, the exception leaves the call.
BatchExceptPropagates(texts, try) ==
  IF try.raised THEN [raised |-> TRUE, result |-> <<>>] ELSE try

\* except Exception: return [{} for _ in texts]
BatchExcept(texts, try) ==
  IF try.raised
  THEN [raised |-> FALSE, result |-> [i \in 1..Len(texts) |-> EmptyVec]]
  ELSE try

\* MultilingualSparseEmbedding.batch_transform: whether the call raised,
\* and what it returned.
BatchOutcome(texts, seed, cond) ==
  IF texts = <<>> THEN [raised |-> FALSE, result |-> <<>>]
  ELSE BatchExcept(texts, BatchTry(texts, seed, cond))

\* The value batch_transform returns.
BatchTransform(texts, seed, cond) == BatchOutcome(texts, seed, cond).result

\* ----------------------------------------------------------------- state

VARIABLES
  f_pc,          \* direct fuse calls: "idle", "fused", "refused"
  result_lists,  \* the lists of the last direct fuse call
  fuse_k,        \* its k
  fused,         \* its return value
  alt_lists,     \* the same ranked ids carrying other native scores
  alt_fused,     \* the return value of fuse on alt_lists
  h_pc,          \* hybrid request: "idle", "rejected", "gathering", "done"
  h_limit,       \* request.limit
  h_k,           \* request.rrf_k
  dense_task,    \* [status, limit, results] of the dense retrieval
  sparse_task,   \* [status, limit, results] of the sparse retrieval
  fused_results, \* the handler's fused_results, <<>> until fusion ran
  fusion_ran,    \* whether reciprocal_rank_fusion was called
  response,      \* [status, results] sent to the client, status "none" before
  e_op,          \* vectorizer call: "none", "detect", "tokenize",
                 \* "korean_transform", "korean_transform_analyzed",
                 \* "transform", "batch"
  e_text,        \* the text of a single-text call
  e_texts,       \* the texts of a batch call
  e_seed,        \* the hash seed of the process that ran the call
  e_cond,        \* the condition of that process's embedders
  e_analysis,    \* what the analyzer did in the call's _tokenize
  e_out,         \* the value the call returned
  e_again,       \* [done, seed, out]: the same call run once more
  g_executor,    \* executors.sparse_executor: "none", "thread", "process"
  g_req,         \* the generate_*_sparse_embedding calls in flight, per
                 \* request: [pc, fn, text, target, ran_on, invoked, seed,
                 \* cond, out]
  e_raised,      \* whether the call let an exception out to its caller
  s_store,       \* the summaries collection: point id -> point or NoPoint
  s_expect,      \* per id, the payload its creates and updates asked for
  s_deleted,     \* the ids deleted and not created again since
  s_last,        \* the last summaries request and its response
  c_point,       \* the chunk the updates address, NoPoint before its create
  c_upd,         \* the update_point calls on that chunk, per request
  c_overlap,     \* whether an update began while another was in progress
  d_sem,         \* _embed_semaphore._value: the free slots
  d_call,        \* the dense embedding calls, per coroutine: [pc, fn]
  i_instance,    \* _multilingual_sparse_instance: 0 for None, else the
                 \* number of the construction it came from
  i_built,       \* how often MultilingualSparseEmbedding() was constructed
  i_thread       \* the worker threads in the create_* functions:
                 \* [pc, fn, made, used]

fvars == <<f_pc, result_lists, fuse_k, fused, alt_lists, alt_fused>>
hvars == <<h_pc, h_limit, h_k, dense_task, sparse_task, fused_results,
           fusion_ran, response>>
evars == <<e_op, e_text, e_texts, e_seed, e_cond, e_analysis, e_out, e_again,
           e_raised>>
gvars == <<g_executor, g_req>>
svars == <<s_store, s_expect, s_deleted, s_last>>
cvars == <<c_point, c_upd, c_overlap>>
dvars == <<d_sem, d_call>>
ivars == <<i_instance, i_built, i_thread>>
xvars == <<svars, cvars, dvars, ivars>>
vars == <<fvars, hvars, evars, gvars, xvars>>

Pending == [status |-> "pending", limit |-> 0, results |-> <<>>]
NoResponse == [status |-> "none", results |-> <<>>]

FuseIdle ==
  /\ f_pc = "idle"
  /\ result_lists = <<>>
  /\ fuse_k = DefaultK
  /\ fused = <<>>
  /\ alt_lists = <<>>
  /\ alt_fused = <<>>

HybridIdle ==
  /\ h_pc = "idle"
  /\ h_limit = 0
  /\ h_k = DefaultK
  /\ dense_task = Pending
  /\ sparse_task = Pending
  /\ fused_results = <<>>
  /\ fusion_ran = FALSE
  /\ response = NoResponse

NotAgain == [done |-> FALSE, seed |-> 0, out |-> <<>>]

EmbedIdle ==
  /\ e_op = "none"
  /\ e_text = <<>>
  /\ e_texts = <<>>
  /\ e_seed = 0
  /\ e_cond = "healthy"
  /\ e_analysis = Analysis(FALSE, <<>>)
  /\ e_out = <<>>
  /\ e_again = NotAgain
  /\ e_raised = FALSE

\* Most requests in flight at once.
MaxRequests == 2
\* Workers of the pool that runs the sparse vectorizer.
PoolSize == 1

\* The texts handed to the caller layer.
CallerTexts == { <<>>, <<"SP", "NL">>, <<"Hn", "SP", "LA">>, <<"Hj">> }

\* The embedders of the process a call runs in: both loaded, or the
\* fallback embedder failed to initialize.
CallerConditions == {"healthy", "no_fastembed"}

\* A request that called nothing yet.
NoCall ==
  [pc |-> "idle", fn |-> "none", text |-> <<>>, target |-> "none",
   ran_on |-> "none", invoked |-> FALSE, seed |-> 0, cond |-> "healthy",
   out |-> <<>>]

CallerIdle ==
  /\ g_executor = "none"
  /\ g_req = [r \in 1..MaxRequests |-> NoCall]

\* ------------------------------------------------ summaries collection

\* Values of str(uuid.uuid4()).
GeneratedUuids == {"g1"}
\* The strings uuid.UUID() parses, which are the ids a point can be stored
\* under: "u1" is one a client made up.
PointIds == {"u1"} \cup GeneratedUuids
\* Whether uuid.UUID(s) parses.
IsUuid(s) == s \in PointIds
SummaryTexts == {"ta", "tb"}
ProjectIds == {1001, 1002}
\* file_id: Optional[int]; 0 stands for None.
FileIds == {0, 51}

\* generate_dense_embedding(text): the provider's vector for the text.
GenerateDenseEmbedding(text) == <<"dense", text>>
\* generate_sparse_embedding(text): the sparse vector of the text.
GenerateSparseEmbedding(text) == <<"sparse", text>>

NoPayload ==
  [summary_id |-> "", project_id |-> 0, file_id |-> 0, summary_text |-> ""]
\* No point under an id.
NoPoint ==
  [present |-> FALSE, payload |-> NoPayload, dense |-> <<>>, sparse |-> <<>>]
NoRequest ==
  [op |-> "none", id |-> "", status |-> 0, supplied |-> "",
   fields_set |-> {}, payload |-> NoPayload]

StoreIdle ==
  /\ s_store = [id \in PointIds |-> NoPoint]
  /\ s_expect = [id \in PointIds |-> NoPayload]
  /\ s_deleted = {}
  /\ s_last = NoRequest

\* -------------------------------------------------------- chunk updates

\* Most update requests on the one chunk in flight at once.
MaxUpdates == 2

NoChunk ==
  [present |-> FALSE, paragraph_texts |-> "", file_id |-> 0,
   dense |-> <<>>, sparse |-> <<>>]
NoUpdate ==
  [pc |-> "idle", fields_set |-> {}, paragraph_texts |-> "", file_id |-> 0,
   dense |-> <<>>, sparse |-> <<>>]

ChunkIdle ==
  /\ c_point = NoChunk
  /\ c_upd = [u \in 1..MaxUpdates |-> NoUpdate]
  /\ c_overlap = FALSE

\* -------------------------------------------------- dense embedding calls

\* settings.embedding_concurrency of the deployment.
EmbeddingConcurrency == 2
\* Most coroutines calling a dense embedding function at once.
MaxCalls == 3

NoDenseCall == [pc |-> "idle", fn |-> "none"]

DenseIdle ==
  /\ d_sem = EmbeddingConcurrency
  /\ d_call = [c \in 1..MaxCalls |-> NoDenseCall]

\* ------------------------------------------------- vectorizer singleton

\* Most worker threads in the create_* functions at once.
MaxThreads == 2

NoThread == [pc |-> "idle", fn |-> "none", made |-> 0, used |-> 0]

SingletonIdle ==
  /\ i_instance = 0
  /\ i_built = 0
  /\ i_thread = [t \in 1..MaxThreads |-> NoThread]

Init ==
  /\ FuseIdle /\ HybridIdle /\ EmbedIdle /\ CallerIdle
  /\ StoreIdle /\ ChunkIdle /\ DenseIdle /\ SingletonIdle

\* -------------------------------------------------- direct calls of fuse

\* RRFFusion(k).fuse(lists) on any ranked lists.
FuseCall ==
  /\ f_pc = "idle"
  /\ h_pc = "idle"
  /\ \E n \in 0..MaxLists, k \in KValues :
       \E idLists \in [1..n -> RankedSeqs(DirectIds, MaxLen)] :
         /\ result_lists' = WithScores(idLists, "similarity")
         /\ fuse_k' = k
         /\ fused' = Fuse(WithScores(idLists, "similarity"), k)
  /\ f_pc' = "fused"
  /\ UNCHANGED <<alt_lists, alt_fused, hvars, evars, gvars, xvars>>

\* A second call on the same ranked ids carrying other native scores.
FuseCallRescored ==
  /\ f_pc = "fused"
  /\ \E scoring \in Scorings \ {"similarity"} :
       LET idLists == [li \in 1..Len(result_lists) |->
                         [r \in 1..Len(result_lists[li]) |-> GetId(result_lists[li][r])]]
       IN /\ alt_lists' = WithScores(idLists, scoring)
          /\ alt_fused' = Fuse(WithScores(idLists, scoring), fuse_k)
  /\ f_pc' = "refused"
  /\ UNCHANGED <<result_lists, fuse_k, fused, hvars, evars, gvars, xvars>>

\* ----------------------------------------------- hybrid dense+sparse RRF

\* Mutant of Gather: a failed retrieval is taken as an empty list as long
\* as the other one succeeded.
GatherDegraded(dense, sparse) ==
  IF dense.status = "pending" \/ sparse.status = "pending" THEN "wait"
  ELSE IF dense.status = "failed" /\ sparse.status = "failed" THEN "raise"
  ELSE "return"

\* Outcome of asyncio.gather(dense, sparse) for the awaiting handler: the
\* first exception is raised at once, the results are returned when both
\* tasks are done.
Gather(dense, sparse) ==
  IF dense.status = "failed" \/ sparse.status = "failed" THEN "raise"
  ELSE IF dense.status = "ok" /\ sparse.status = "ok" THEN "return"
  ELSE "wait"

\* Mutant of OverFetch: the retrievals are issued with the caller's limit.
OverFetchNone(limit) == limit

\* limit=limit * 2 of the dense and of the sparse search call.
OverFetch(limit) == limit * 2

\* rrf_k: int = Field(default=60, ge=1, le=100)
MinRrfK == 1
MaxRrfK == 100
\* The rrf_k values of requests: the bounds, the default, and values next
\* to the bounds on the outside.
ApiKValues == KValues \cup {MaxRrfK}
InvalidKValues == {0 - 1, 0, MaxRrfK + 1}

\* Mutant of ValidRrfK: the field carries no constraint.
ValidRrfKUnconstrained(k) == TRUE

\* The validation of rrf_k when the request body is parsed.
ValidRrfK(k) == k >= MinRrfK /\ k <= MaxRrfK

\* POST /dense_sparse_rrf arrives with a body that fails validation: the
\* framework answers 422 and the handler is not called.
RequestRejected ==
  /\ h_pc = "idle"
  /\ f_pc = "idle"
  /\ \E k \in ApiKValues \cup InvalidKValues :
       /\ ~ValidRrfK(k)
       /\ h_k' = k
  /\ response' = [status |-> "invalid", results |-> <<>>]
  /\ h_pc' = "rejected"
  /\ UNCHANGED <<evars, gvars, xvars, fvars, h_limit, dense_task, sparse_task, fused_results, fusion_ran>>

\* POST /dense_sparse_rrf arrives; both retrievals are started with
\* limit * 2.
Request ==
  /\ h_pc = "idle"
  /\ f_pc = "idle"
  /\ \E limit \in 1..MaxLimit, k \in ApiKValues \cup InvalidKValues :
       /\ ValidRrfK(k)
       /\ h_limit' = limit
       /\ h_k' = k
       /\ dense_task' = [Pending EXCEPT !.limit = OverFetch(limit)]
       /\ sparse_task' = [Pending EXCEPT !.limit = OverFetch(limit)]
  /\ h_pc' = "gathering"
  /\ UNCHANGED <<evars, gvars, xvars, fvars, fused_results, fusion_ran, response>>

\* The index answers the dense search with at most as many results as the
\* limit it was called with.
DenseReturn ==
  /\ h_pc \in {"gathering", "done"}
  /\ dense_task.status = "pending"
  /\ \E ids \in RankedSeqs(Ids, dense_task.limit) :
       dense_task' = [dense_task EXCEPT !.status = "ok",
                        !.results = WithScores(<<ids>>, "similarity")[1]]
  /\ UNCHANGED <<evars, gvars, xvars, fvars, h_pc, h_limit, h_k, sparse_task, fused_results, fusion_ran, response>>

\* The dense embedding call or the dense search raises.
DenseFail ==
  /\ h_pc \in {"gathering", "done"}
  /\ dense_task.status = "pending"
  /\ dense_task' = [dense_task EXCEPT !.status = "failed"]
  /\ UNCHANGED <<evars, gvars, xvars, fvars, h_pc, h_limit, h_k, sparse_task, fused_results, fusion_ran, response>>

\* The index answers the sparse search with at most as many results as the
\* limit it was called with.
SparseReturn ==
  /\ h_pc \in {"gathering", "done"}
  /\ sparse_task.status = "pending"
  /\ \E ids \in RankedSeqs(Ids, sparse_task.limit) :
       sparse_task' = [sparse_task EXCEPT !.status = "ok",
                         !.results = WithScores(<<ids>>, "similarity")[1]]
  /\ UNCHANGED <<evars, gvars, xvars, fvars, h_pc, h_limit, h_k, dense_task, fused_results, fusion_ran, response>>

\* The sparse search raises.
SparseFail ==
  /\ h_pc \in {"gathering", "done"}
  /\ sparse_task.status = "pending"
  /\ sparse_task' = [sparse_task EXCEPT !.status = "failed"]
  /\ UNCHANGED <<evars, gvars, xvars, fvars, h_pc, h_limit, h_k, dense_task, fused_results, fusion_ran, response>>

\* The response results: fused_results[:limit] with the RRF score as score.
ResponseResults(fusedList, limit) ==
  LET top == Prefix(fusedList, limit)
  IN [i \in 1..Len(top) |-> Result(top[i].result.point_id, top[i].rrf)]

\* gather returned both lists: fuse, truncate, answer 200.
Respond ==
  /\ h_pc = "gathering"
  /\ Gather(dense_task, sparse_task) = "return"
  /\ LET fusedList == ReciprocalRankFusion(dense_task.results, sparse_task.results, h_k)
     IN /\ fused_results' = fusedList
        /\ response' = [status |-> "ok", results |-> ResponseResults(fusedList, h_limit)]
  /\ fusion_ran' = TRUE
  /\ h_pc' = "done"
  /\ UNCHANGED <<evars, gvars, xvars, fvars, h_limit, h_k, dense_task, sparse_task>>

\* gather raised: except Exception -> HTTPException(500).
RespondError ==
  /\ h_pc = "gathering"
  /\ Gather(dense_task, sparse_task) = "raise"
  /\ response' = [status |-> "error", results |-> <<>>]
  /\ h_pc' = "done"
  /\ UNCHANGED <<evars, gvars, xvars, fvars, h_limit, h_k, dense_task, sparse_task, fused_results, fusion_ran>>

Next ==
  \/ FuseCall
  \/ FuseCallRescored
  \/ RequestRejected
  \/ Request
  \/ DenseReturn
  \/ DenseFail
  \/ SparseReturn
  \/ SparseFail
  \/ Respond
  \/ RespondError

Spec == Init /\ [][Next]_vars

\* ------------------------------------------------- vectorizer operations

\* embedder._is_korean_text(text)
Detect ==
  /\ e_op = "none"
  /\ \E text \in SeqsUpTo(DetectChars, MaxTextLen) :
       /\ e_text' = text
       /\ e_out' = IsKoreanText(text)
  /\ e_op' = "detect"
  /\ UNCHANGED <<e_texts, e_seed, e_cond, e_analysis, e_again, e_raised, fvars, hvars, gvars, xvars>>

\* embedder._tokenize(text), the analyzer working or raising.
TokenizeText ==
  /\ e_op = "none"
  /\ \E text \in SeqsUpTo(TextChars, MaxTextLen), cond \in {"healthy", "kiwi_raises"} :
       /\ e_text' = text
       /\ e_cond' = cond
       /\ e_analysis' = Analyze(text, cond = "kiwi_raises")
       /\ e_out' = TokenizeOutcome(text, Analyze(text, cond = "kiwi_raises"))
  /\ e_op' = "tokenize"
  /\ UNCHANGED <<e_texts, e_seed, e_again, e_raised, fvars, hvars, gvars, xvars>>

\* embedder._tokenize(text) on a text the analyzer splits into any
\* morphemes of its tag set.
TokenizeAnalyzed ==
  /\ e_op = "none"
  /\ \E result \in SeqsUpTo(Morphemes, MaxMorphemes) \ {<<>>} :
       /\ e_text' = TextOf(result)
       /\ e_analysis' = Analysis(FALSE, result)
       /\ e_out' = TokenizeOutcome(TextOf(result), Analysis(FALSE, result))
  /\ e_op' = "tokenize"
  /\ UNCHANGED <<e_texts, e_seed, e_cond, e_again, e_raised, fvars, hvars, gvars, xvars>>

\* KoreanSparseEmbedding().transform(text) in some process.
KoreanBuild ==
  /\ e_op = "none"
  /\ \E text \in SeqsUpTo(TextChars, MaxTextLen), seed \in HashSeeds,
        cond \in {"healthy", "kiwi_raises"} :
       /\ e_text' = text
       /\ e_seed' = seed
       /\ e_cond' = cond
       /\ e_analysis' = Analyze(text, cond = "kiwi_raises")
       /\ e_out' = KoreanTransform(text, seed, cond = "kiwi_raises")
  /\ e_op' = "korean_transform"
  /\ UNCHANGED <<e_texts, e_again, e_raised, fvars, hvars, gvars, xvars>>

\* KoreanSparseEmbedding().transform(text) on a text the analyzer splits
\* into any nouns.
KoreanBuildAnalyzed ==
  /\ e_op = "none"
  /\ \E result \in SeqsUpTo(NounMorphemes, MaxTokens) \ {<<>>}, seed \in HashSeeds :
       /\ e_text' = TextOf(result)
       /\ e_seed' = seed
       /\ e_analysis' = Analysis(FALSE, result)
       /\ e_out' = WeighTokens(TokenizeOutcome(TextOf(result), Analysis(FALSE, result)).tokens,
                               seed)
  /\ e_op' = "korean_transform_analyzed"
  /\ UNCHANGED <<e_texts, e_cond, e_again, e_raised, fvars, hvars, gvars, xvars>>

\* create_multilingual_sparse_embedding(text) in some process.
Build ==
  /\ e_op = "none"
  /\ \E text \in SeqsUpTo(TextChars, MaxTextLen), seed \in HashSeeds,
        cond \in Conditions :
       /\ e_text' = text
       /\ e_seed' = seed
       /\ e_cond' = cond
       /\ e_out' = MultilingualTransform(text, seed, cond)
  /\ e_op' = "transform"
  /\ UNCHANGED <<e_texts, e_analysis, e_again, e_raised, fvars, hvars, gvars, xvars>>

\* create_multilingual_sparse_embeddings(texts) in some process.
BatchBuild ==
  /\ e_op = "none"
  /\ \E texts \in SeqsUpTo(BatchTexts, MaxBatch), seed \in HashSeeds,
        cond \in BatchConditions :
       /\ e_texts' = texts
       /\ e_seed' = seed
       /\ e_cond' = cond
       /\ e_out' = BatchTransform(texts, seed, cond)
       /\ e_raised' = BatchOutcome(texts, seed, cond).raised
  /\ e_op' = "batch"
  /\ UNCHANGED <<e_text, e_analysis, e_again, fvars, hvars, gvars, xvars>>

\* The same call on the same input once more, in the same or in another
\* process (a worker process, a restarted server) with embedders in the
\* same condition.
BuildAgain ==
  /\ e_op \in {"korean_transform", "transform", "batch"}
  /\ ~e_again.done
  /\ \E seed \in HashSeeds :
       e_again' =
         [done |-> TRUE,
          seed |-> seed,
          out |-> CASE e_op = "korean_transform" ->
                         KoreanTransform(e_text, seed, e_cond = "kiwi_raises")
                    [] e_op = "transform" -> MultilingualTransform(e_text, seed, e_cond)
                    [] e_op = "batch" -> BatchTransform(e_texts, seed, e_cond)]
  /\ UNCHANGED <<e_op, e_text, e_texts, e_seed, e_cond, e_analysis, e_out, e_raised, fvars, hvars, gvars, xvars>>

NextEmbed ==
  \/ Detect
  \/ TokenizeText
  \/ TokenizeAnalyzed
  \/ KoreanBuild
  \/ KoreanBuildAnalyzed
  \/ Build
  \/ BatchBuild
  \/ BuildAgain

SpecEmbed == Init /\ [][NextEmbed]_vars

\* ------------------------------------------------- sparse caller layer

\* Mutant of CallerEarlyReturn: only the empty string is caught.
CallerEarlyReturnEmptyOnly(text) == text = <<>>

\* if not text or text.strip() == "": return {0: 1.0}
CallerEarlyReturn(text) == text = <<>> \/ Strip(text) = <<>>

\* Mutant of OffloadTarget: without a configured executor the vectorizer
\* is called in the coroutine itself.
OffloadTargetInline(exec_) == IF exec_ = "none" THEN "loop" ELSE exec_

\* Where the vectorizer call is sent: asyncio.to_thread when
\* executors.sparse_executor is None, else loop.run_in_executor(exec_, ...).
OffloadTarget(exec_) == IF exec_ = "none" THEN "to_thread" ELSE exec_

\* The requests a worker is running.
Running == {r \in 1..MaxRequests : g_req[r].pc = "running"}

\* init_executors() at startup: a thread pool or a process pool.
InitExecutors ==
  /\ g_executor = "none"
  /\ \A r \in 1..MaxRequests : g_req[r].pc = "idle"
  /\ \E kind \in {"thread", "process"} : g_executor' = kind
  /\ UNCHANGED <<g_req, fvars, hvars, evars, xvars>>

\* The event loop runs generate_sparse_embedding(text) ("document") or
\* generate_query_sparse_embedding(query) ("query") up to its return or
\* its await.
GenerateCall(r) ==
  /\ g_req[r].pc = "idle"
  /\ \E fn \in {"document", "query"}, text \in CallerTexts :
       g_req' = [g_req EXCEPT ![r] =
                   IF CallerEarlyReturn(text)
                   THEN [NoCall EXCEPT !.pc = "done", !.fn = fn, !.text = text,
                                       !.out = SentinelVec]
                   ELSE [NoCall EXCEPT !.pc = "queued", !.fn = fn, !.text = text,
                                       !.target = OffloadTarget(g_executor)]]
  /\ UNCHANGED <<g_executor, fvars, hvars, evars, xvars>>

\* A free worker of the target takes the call; the coroutine stays
\* suspended in its await.
WorkerStart(r) ==
  /\ g_req[r].pc = "queued"
  /\ Cardinality(Running) < PoolSize
  /\ g_req' = [g_req EXCEPT ![r].pc = "running", ![r].ran_on = g_req[r].target]
  /\ UNCHANGED <<g_executor, fvars, hvars, evars, xvars>>

\* The worker returns create_multilingual_sparse_embedding(text); the
\* coroutine resumes and returns that value.
WorkerFinish(r) ==
  /\ g_req[r].pc = "running"
  /\ \E seed \in HashSeeds, cond \in CallerConditions :
       g_req' = [g_req EXCEPT ![r].pc = "done", ![r].invoked = TRUE,
                              ![r].seed = seed, ![r].cond = cond,
                              ![r].out = MultilingualTransform(g_req[r].text, seed, cond)]
  /\ UNCHANGED <<g_executor, fvars, hvars, evars, xvars>>

NextCaller ==
  \/ InitExecutors
  \/ \E r \in 1..MaxRequests : GenerateCall(r)
  \/ \E r \in 1..MaxRequests : WorkerStart(r)
  \/ \E r \in 1..MaxRequests : WorkerFinish(r)

SpecCaller == Init /\ [][NextCaller]_vars

\* ------------------------------------------------- summaries operations

\* _validate_or_generate_uuid(summary_id), fresh being the value of
\* str(uuid.uuid4()).
ValidateOrGenerateUuid(summary_id, fresh) ==
  IF summary_id = "" THEN fresh
  ELSE IF IsUuid(summary_id) THEN summary_id
  ELSE fresh

\* The fields of SummaryCreate.
SummaryCreateFields == {"summary_id", "project_id", "file_id", "summary_text"}

\* The bodies of POST /summaries as SummaryCreate keeps them; a summary_id
\* "" stands for a missing or empty one.
SummaryCreates ==
  [summary_id : PointIds \cup {"", "not-a-uuid"}, project_id : ProjectIds,
   file_id : FileIds, summary_text : SummaryTexts]

\* The bodies of PUT /summaries/{id}: the fields the body names, every
\* other field at its default None.
SummaryUpdates ==
  { [fields_set |-> fs,
     summary_text |-> IF "summary_text" \in fs THEN t ELSE "",
     project_id |-> IF "project_id" \in fs THEN p ELSE 0,
     file_id |-> IF "file_id" \in fs THEN f ELSE 0] :
    fs \in SUBSET {"summary_text", "project_id", "file_id"}, t \in SummaryTexts, p \in ProjectIds,
    f \in FileIds }

\* SummaryPayload(summary_id=point_id, **summary.model_dump(exclude={"summary_id"}))
CreatedPayload(point_id, summary) ==
  [summary_id |-> point_id, project_id |-> summary.project_id,
   file_id |-> summary.file_id, summary_text |-> summary.summary_text]

\* PointStruct(id, vector={dense, sparse}, payload)
PointStruct(payload, dense, sparse) ==
  [present |-> TRUE, payload |-> payload, dense |-> dense, sparse |-> sparse]

\* Mutant of MergePayload: the payload is built from the update alone.
MergePayloadUpdateOnly(existing, update) ==
  [summary_id |-> existing.summary_id, project_id |-> update.project_id,
   file_id |-> update.file_id, summary_text |-> update.summary_text]

\* {**existing[0].payload, **update_dict}, update_dict being
\* update.model_dump(exclude_unset=True)
MergePayload(existing, update) ==
  [summary_id |-> existing.summary_id,
   project_id |-> IF "project_id" \in update.fields_set
                  THEN update.project_id ELSE existing.project_id,
   file_id |-> IF "file_id" \in update.fields_set
               THEN update.file_id ELSE existing.file_id,
   summary_text |-> IF "summary_text" \in update.fields_set
                    THEN update.summary_text ELSE existing.summary_text]

\* The index's set_payload(payload=update_dict): the keys given are
\* written, the other keys of the stored payload stay.
SetPayload(stored, update) ==
  [summary_id |-> stored.summary_id,
   project_id |-> IF "project_id" \in update.fields_set
                  THEN update.project_id ELSE stored.project_id,
   file_id |-> IF "file_id" \in update.fields_set
               THEN update.file_id ELSE stored.file_id,
   summary_text |-> IF "summary_text" \in update.fields_set
                    THEN update.summary_text ELSE stored.summary_text]

\* Mutant of RegeneratesVectors: the vectors are built at create only.
RegeneratesVectorsNever(update) == FALSE

\* if "summary_text" in update_dict
RegeneratesVectors(update) == "summary_text" \in update.fields_set

\* The point update_summary leaves under the id.
UpdatedPoint(existing, update) ==
  IF RegeneratesVectors(update)
  THEN PointStruct(MergePayload(existing.payload, update),
                   GenerateDenseEmbedding(update.summary_text),
                   GenerateSparseEmbedding(update.summary_text))
  ELSE [existing EXCEPT !.payload = SetPayload(existing.payload, update)]

\* Mutant of DeletePoints: every point of the addressed point's project
\* is removed.
DeletePointsOfProject(store, id) ==
  [other \in PointIds |->
     IF other = id \/ (store[id].present /\ store[other].present
                       /\ store[other].payload.project_id = store[id].payload.project_id)
     THEN NoPoint ELSE store[other]]

\* The index's delete(points_selector=[summary_id]).
DeletePoints(store, id) == [store EXCEPT ![id] = NoPoint]

\* A point the collection holds that another writer upserted, with the
\* vectors of its text.
ExistingSummary ==
  /\ ~c_point.present
  /\ \E id \in PointIds, p \in ProjectIds, f \in FileIds, t \in SummaryTexts :
       /\ ~s_store[id].present
       /\ s_store' = [s_store EXCEPT ![id] =
                        PointStruct([summary_id |-> id, project_id |-> p,
                                     file_id |-> f, summary_text |-> t],
                                    GenerateDenseEmbedding(t),
                                    GenerateSparseEmbedding(t))]
       /\ s_expect' = [s_expect EXCEPT ![id] =
                         [summary_id |-> id, project_id |-> p,
                          file_id |-> f, summary_text |-> t]]
       /\ s_deleted' = s_deleted \ {id}
       /\ s_last' = [NoRequest EXCEPT !.op = "stored", !.id = id]
  /\ UNCHANGED <<fvars, hvars, evars, gvars, cvars, dvars, ivars>>

\* POST /summaries: reading summary.correlation_id, which is no field of
\* SummaryCreate, raises AttributeError inside the try, and except
\* Exception answers 500; with the field the handler would validate the
\* id, embed, upsert and answer 201.
CreateSummary ==
  /\ ~c_point.present
  /\ \E summary \in SummaryCreates, fresh \in GeneratedUuids :
       IF "correlation_id" \notin SummaryCreateFields
       THEN /\ s_last' = [NoRequest EXCEPT !.op = "create", !.status = 500,
                                           !.supplied = summary.summary_id]
            /\ UNCHANGED <<s_store, s_expect, s_deleted>>
       ELSE /\ IsUuid(summary.summary_id) \/ ~s_store[fresh].present
            /\ LET point_id == ValidateOrGenerateUuid(summary.summary_id, fresh)
                   payload == CreatedPayload(point_id, summary)
               IN /\ s_store' = [s_store EXCEPT ![point_id] =
                                   PointStruct(payload,
                                               GenerateDenseEmbedding(summary.summary_text),
                                               GenerateSparseEmbedding(summary.summary_text))]
                  /\ s_expect' = [s_expect EXCEPT ![point_id] =
                                    [summary_id |-> point_id,
                                     project_id |-> summary.project_id,
                                     file_id |-> summary.file_id,
                                     summary_text |-> summary.summary_text]]
                  /\ s_deleted' = s_deleted \ {point_id}
                  /\ s_last' = [op |-> "create", id |-> point_id, status |-> 201,
                                supplied |-> summary.summary_id, fields_set |-> {},
                                payload |-> payload]
  /\ UNCHANGED <<fvars, hvars, evars, gvars, cvars, dvars, ivars>>

\* GET /summaries/{summary_id}
GetSummary ==
  /\ ~c_point.present
  /\ \E id \in PointIds :
       s_last' = IF s_store[id].present
                 THEN [NoRequest EXCEPT !.op = "get", !.id = id, !.status = 200,
                                        !.payload = s_store[id].payload]
                 ELSE [NoRequest EXCEPT !.op = "get", !.id = id, !.status = 404]
  /\ UNCHANGED <<s_store, s_expect, s_deleted>>
  /\ UNCHANGED <<fvars, hvars, evars, gvars, cvars, dvars, ivars>>

\* PUT /summaries/{summary_id}
UpdateSummary ==
  /\ ~c_point.present
  /\ \E id \in PointIds, update \in SummaryUpdates :
       IF ~s_store[id].present
       THEN /\ s_last' = [NoRequest EXCEPT !.op = "update", !.id = id, !.status = 404,
                                           !.fields_set = update.fields_set]
            /\ UNCHANGED <<s_store, s_expect>>
       ELSE /\ s_store' = [s_store EXCEPT ![id] = UpdatedPoint(s_store[id], update)]
            /\ s_expect' = [s_expect EXCEPT ![id] =
                 [summary_id |-> s_expect[id].summary_id,
                  project_id |-> IF "project_id" \in update.fields_set
                                 THEN update.project_id ELSE s_expect[id].project_id,
                  file_id |-> IF "file_id" \in update.fields_set
                              THEN update.file_id ELSE s_expect[id].file_id,
                  summary_text |-> IF "summary_text" \in update.fields_set
                                   THEN update.summary_text
                                   ELSE s_expect[id].summary_text]]
            /\ s_last' = [NoRequest EXCEPT !.op = "update", !.id = id, !.status = 200,
                                           !.fields_set = update.fields_set,
                                           !.payload = UpdatedPoint(s_store[id], update).payload]
  /\ UNCHANGED s_deleted
  /\ UNCHANGED <<fvars, hvars, evars, gvars, cvars, dvars, ivars>>

\* DELETE /summaries/{summary_id}
DeleteSummary ==
  /\ ~c_point.present
  /\ \E id \in PointIds :
       /\ s_store' = DeletePoints(s_store, id)
       /\ s_expect' = [s_expect EXCEPT ![id] = NoPayload]
       /\ s_deleted' = s_deleted \cup {id}
       /\ s_last' = [NoRequest EXCEPT !.op = "delete", !.id = id, !.status = 204]
  /\ UNCHANGED <<fvars, hvars, evars, gvars, cvars, dvars, ivars>>

\* ------------------------------------------------------ chunk operations

\* The bodies of PUT /points/{point_id}.
ChunkUpdates ==
  { [NoUpdate EXCEPT !.fields_set = fs,
       !.paragraph_texts = IF "paragraph_texts" \in fs THEN t ELSE "",
       !.file_id = IF "file_id" \in fs THEN 8 ELSE 0] :
    fs \in SUBSET {"paragraph_texts", "file_id"}, t \in {"pa", "pb"} }

\* The update_point calls between their first and their last await.
InProgress == {u \in 1..MaxUpdates : c_upd[u].pc \notin {"idle", "done"}}

\* create_point(chunk): one upsert of vectors and payload.
CreateChunk ==
  /\ s_last = NoRequest
  /\ ~c_point.present
  /\ c_point' = [present |-> TRUE, paragraph_texts |-> "p0", file_id |-> 7,
                 dense |-> GenerateDenseEmbedding("p0"),
                 sparse |-> GenerateSparseEmbedding("p0")]
  /\ UNCHANGED <<c_upd, c_overlap>>
  /\ UNCHANGED <<fvars, hvars, evars, gvars, svars, dvars, ivars>>

\* update_point up to its first write: get_point finds the point, and if
\* the body names paragraph_texts both embeddings are generated.
UpdateBegin(u) ==
  /\ c_point.present
  /\ c_upd[u].pc = "idle"
  /\ \E update \in ChunkUpdates :
       c_upd' = [c_upd EXCEPT ![u] =
                   IF "paragraph_texts" \in update.fields_set
                   THEN [update EXCEPT !.pc = "embedded",
                           !.dense = GenerateDenseEmbedding(update.paragraph_texts),
                           !.sparse = GenerateSparseEmbedding(update.paragraph_texts)]
                   ELSE [update EXCEPT !.pc = "payload"]]
  /\ c_overlap' = (c_overlap \/ InProgress # {})
  /\ UNCHANGED c_point
  /\ UNCHANGED <<fvars, hvars, evars, gvars, svars, dvars, ivars>>

\* await self.client.update_vectors(...)
UpdateVectors(u) ==
  /\ c_upd[u].pc = "embedded"
  /\ c_point' = [c_point EXCEPT !.dense = c_upd[u].dense, !.sparse = c_upd[u].sparse]
  /\ c_upd' = [c_upd EXCEPT ![u].pc = "payload"]
  /\ UNCHANGED c_overlap
  /\ UNCHANGED <<fvars, hvars, evars, gvars, svars, dvars, ivars>>

\* await self.client.set_payload(payload=update_dict, ...); return True
UpdatePayload(u) ==
  /\ c_upd[u].pc = "payload"
  /\ c_point' = [c_point EXCEPT
                   !.paragraph_texts = IF "paragraph_texts" \in c_upd[u].fields_set
                                       THEN c_upd[u].paragraph_texts ELSE @,
                   !.file_id = IF "file_id" \in c_upd[u].fields_set
                               THEN c_upd[u].file_id ELSE @]
  /\ c_upd' = [c_upd EXCEPT ![u].pc = "done"]
  /\ UNCHANGED c_overlap
  /\ UNCHANGED <<fvars, hvars, evars, gvars, svars, dvars, ivars>>

NextStore ==
  \/ ExistingSummary
  \/ CreateSummary
  \/ GetSummary
  \/ UpdateSummary
  \/ DeleteSummary
  \/ CreateChunk
  \/ \E u \in 1..MaxUpdates : UpdateBegin(u)
  \/ \E u \in 1..MaxUpdates : UpdateVectors(u)
  \/ \E u \in 1..MaxUpdates : UpdatePayload(u)

SpecStore == Init /\ [][NextStore]_vars

\* ------------------------------------------------ dense embedding calls

\* The calls between acquiring the semaphore and leaving the async with.
InFlight == {c \in 1..MaxCalls : d_call[c].pc = "in_flight"}

\* Mutant of ExitOnError: the slot is given back after a successful call
\* only.
ExitOnErrorKeepsSlot(value) == value

\* _embed_semaphore.__aexit__ when embed_content raised: release().
ExitOnError(value) == value + 1

\* generate_dense_embedding ("document"), generate_query_dense_embedding
\* ("query") or batch_generate_dense_embeddings ("batch") is called: blank
\* text and an empty batch return at once, anything else goes to the
\* semaphore.
DenseCall(c) ==
  /\ d_call[c].pc = "idle"
  /\ \E fn \in {"document", "query", "batch"}, blank \in BOOLEAN :
       d_call' = [d_call EXCEPT ![c] =
                    [pc |-> IF blank THEN "returned" ELSE "waiting", fn |-> fn]]
  /\ UNCHANGED d_sem
  /\ UNCHANGED <<fvars, hvars, evars, gvars, svars, cvars, ivars>>

\* async with _embed_semaphore: a slot is free, embed_content is called.
Acquire(c) ==
  /\ d_call[c].pc = "waiting"
  /\ d_sem > 0
  /\ d_sem' = d_sem - 1
  /\ d_call' = [d_call EXCEPT ![c].pc = "in_flight"]
  /\ UNCHANGED <<fvars, hvars, evars, gvars, svars, cvars, ivars>>

\* embed_content returns; the async with block is left.
ProviderReturn(c) ==
  /\ d_call[c].pc = "in_flight"
  /\ d_sem' = d_sem + 1
  /\ d_call' = [d_call EXCEPT ![c].pc = "returned"]
  /\ UNCHANGED <<fvars, hvars, evars, gvars, svars, cvars, ivars>>

\* embed_content raises; the async with block is left by the exception,
\* which the function passes on as ValueError.
ProviderRaise(c) ==
  /\ d_call[c].pc = "in_flight"
  /\ d_sem' = ExitOnError(d_sem)
  /\ d_call' = [d_call EXCEPT ![c].pc = "raised"]
  /\ UNCHANGED <<fvars, hvars, evars, gvars, svars, cvars, ivars>>

NextDense ==
  \/ \E c \in 1..MaxCalls : DenseCall(c)
  \/ \E c \in 1..MaxCalls : Acquire(c)
  \/ \E c \in 1..MaxCalls : ProviderReturn(c)
  \/ \E c \in 1..MaxCalls : ProviderRaise(c)

SpecDense == Init /\ [][NextDense]_vars

\* The event loop resumes a coroutine waiting for a free slot, and every
\* call to the provider returns or raises.
SpecDenseFair ==
  /\ SpecDense
  /\ \A c \in 1..MaxCalls :
       /\ WF_vars(Acquire(c))
       /\ WF_vars(ProviderReturn(c) \/ ProviderRaise(c))

\* ------------------------------------------------ vectorizer singleton

\* A worker thread enters create_multilingual_sparse_embedding ("single")
\* or create_multilingual_sparse_embeddings ("batch") and evaluates
\* `_multilingual_sparse_instance is None`.
CheckInstance(t) ==
  /\ i_thread[t].pc = "idle"
  /\ \E fn \in {"single", "batch"} :
       i_thread' = [i_thread EXCEPT ![t] =
                      [NoThread EXCEPT !.fn = fn,
                         !.pc = IF i_instance = 0 THEN "construct" ELSE "use"]]
  /\ UNCHANGED <<i_instance, i_built>>
  /\ UNCHANGED <<fvars, hvars, evars, gvars, svars, cvars, dvars>>

\* MultilingualSparseEmbedding() runs in the thread that saw None.
Construct(t) ==
  /\ i_thread[t].pc = "construct"
  /\ i_built' = i_built + 1
  /\ i_thread' = [i_thread EXCEPT ![t].pc = "assign", ![t].made = i_built + 1]
  /\ UNCHANGED i_instance
  /\ UNCHANGED <<fvars, hvars, evars, gvars, svars, cvars, dvars>>

\* _multilingual_sparse_instance = <the new object>
Assign(t) ==
  /\ i_thread[t].pc = "assign"
  /\ i_instance' = i_thread[t].made
  /\ i_thread' = [i_thread EXCEPT ![t].pc = "use"]
  /\ UNCHANGED i_built
  /\ UNCHANGED <<fvars, hvars, evars, gvars, svars, cvars, dvars>>

\* return _multilingual_sparse_instance.transform(text): the global is
\* read again and the call runs on the object it holds.
UseInstance(t) ==
  /\ i_thread[t].pc = "use"
  /\ i_thread' = [i_thread EXCEPT ![t].pc = "done", ![t].used = i_instance]
  /\ UNCHANGED <<i_instance, i_built>>
  /\ UNCHANGED <<fvars, hvars, evars, gvars, svars, cvars, dvars>>

NextSingleton ==
  \/ \E t \in 1..MaxThreads : CheckInstance(t)
  \/ \E t \in 1..MaxThreads : Construct(t)
  \/ \E t \in 1..MaxThreads : Assign(t)
  \/ \E t \in 1..MaxThreads : UseInstance(t)

SpecSingleton == Init /\ [][NextSingleton]_vars

\* ------------------------------------------------- properties of fusion

\* The ids of a list of result objects.
IdsOf(list) == [r \in 1..Len(list) |-> list[r].point_id]

\* The 1-based rank of id in a ranked list that holds it.
RankOf(list, id) == CHOOSE r \in 1..Len(list) : list[r].point_id = id

RECURSIVE ReciprocalRankSum(_, _, _, _)
ReciprocalRankSum(lists, k, id, li) ==
  IF li > Len(lists) THEN 0
  ELSE (IF id \in Range(IdsOf(lists[li]))
        THEN Scale(k) \div (k + RankOf(lists[li], id))
        ELSE 0) + ReciprocalRankSum(lists, k, id, li + 1)

\* Every id of the input has an output entry, and every output entry's score
\* is the sum of 1/(k + r) over the lists that hold its id.
ScoresAreReciprocalRankSums(lists, k, out) ==
  /\ \A r \in 1..MaxRank : Scale(k) % (k + r) = 0
  /\ \A li \in 1..Len(lists) : \A id \in Range(IdsOf(lists[li])) :
       \E i \in 1..Len(out) : out[i].result.point_id = id
  /\ \A i \in 1..Len(out) :
       out[i].rrf = ReciprocalRankSum(lists, k, out[i].result.point_id, 1)

\* The lists the hybrid handler fused.
HybridLists == <<dense_task.results, sparse_task.results>>

\* C1: fuse gives every identifier the score sum over the lists holding it
\* of 1/(k + r), r its 1-based rank there; a list without it adds nothing.
\* Holds for direct fuse calls and for the fusion of a hybrid query.
C1_FusionScore ==
  /\ f_pc # "idle" => ScoresAreReciprocalRankSums(result_lists, fuse_k, fused)
  /\ fusion_ran => ScoresAreReciprocalRankSums(HybridLists, h_k, fused_results)

\* A direct call fused two lists, one id ranked differently in both and
\* another id held by one list only.
C1_Witness ==
  /\ f_pc = "fused"
  /\ Len(result_lists) = 2
  /\ \E a, b \in DirectIds :
       /\ a \in Range(IdsOf(result_lists[1])) /\ a \in Range(IdsOf(result_lists[2]))
       /\ RankOf(result_lists[1], a) # RankOf(result_lists[2], a)
       /\ b \in Range(IdsOf(result_lists[1])) /\ b \notin Range(IdsOf(result_lists[2]))
       /\ \E i \in 1..Len(fused) : fused[i].result.point_id = b

\* The concatenation of the lists' ids: the traversal order of fuse.
RECURSIVE Traversal(_, _)
Traversal(lists, li) ==
  IF li > Len(lists) THEN <<>> ELSE IdsOf(lists[li]) \o Traversal(lists, li + 1)

\* Position at which the traversal first meets id.
FirstSeen(lists, id) ==
  LET t == Traversal(lists, 1)
  IN CHOOSE p \in 1..Len(t) : t[p] = id /\ \A q \in 1..(p - 1) : t[q] # id

TiesKeepFirstSeenOrder(lists, out) ==
  \A i, j \in 1..Len(out) :
    (i < j /\ out[i].rrf = out[j].rrf) =>
      FirstSeen(lists, out[i].result.point_id) < FirstSeen(lists, out[j].result.point_id)

\* The lists A = [x, y, z], B = [y, x, w] were fused with k = 60.
TieExampleFused ==
  /\ fusion_ran
  /\ h_k = 60
  /\ IdsOf(dense_task.results) = <<"x", "y", "z">>
  /\ IdsOf(sparse_task.results) = <<"y", "x", "w">>

\* C2: entries of equal fusion score come out in the order in which the
\* traversal (lists in the order given, each from rank 1 down) first met
\* them; for A = [x, y, z], B = [y, x, w], k = 60 the output is x, y, z, w
\* with x and y tied.
C2_TieBreak ==
  /\ f_pc # "idle" => TiesKeepFirstSeenOrder(result_lists, fused)
  /\ fusion_ran => TiesKeepFirstSeenOrder(HybridLists, fused_results)
  /\ TieExampleFused =>
       /\ IdsOf([i \in 1..Len(fused_results) |-> fused_results[i].result])
            = <<"x", "y", "z", "w">>
       /\ fused_results[1].rrf = fused_results[2].rrf
       /\ fused_results[2].rrf > fused_results[3].rrf

C2_Witness == TieExampleFused

NonIncreasing(scores) ==
  \A i \in 1..(Len(scores) - 1) : scores[i] >= scores[i + 1]

\* C3: the sequence fuse returns, and the scores of the results of a hybrid
\* response, are in non-increasing order of fusion score.
C3_Descending ==
  /\ NonIncreasing([i \in 1..Len(fused) |-> fused[i].rrf])
  /\ NonIncreasing([i \in 1..Len(fused_results) |-> fused_results[i].rrf])
  /\ NonIncreasing([i \in 1..Len(response.results) |-> response.results[i].score])

\* A hybrid response carries results of different fusion scores, and the
\* best of them was not the first entry met.
C3_Witness ==
  /\ response.status = "ok"
  /\ Len(response.results) >= 2
  /\ response.results[1].score > response.results[2].score
  /\ Len(dense_task.results) >= 1
  /\ response.results[1].point_id # dense_task.results[1].point_id

\* C4: fuse on the same ranked ids with other native scores returns the
\* same identifier order and the same fusion scores.
C4_RankOnly ==
  f_pc = "refused" =>
    /\ Len(alt_fused) = Len(fused)
    /\ \A i \in 1..Len(fused) :
         /\ alt_fused[i].result.point_id = fused[i].result.point_id
         /\ alt_fused[i].rrf = fused[i].rrf

\* The second call saw other native scores on at least two fused entries.
C4_Witness ==
  /\ f_pc = "refused"
  /\ Len(fused) >= 2
  /\ \A i \in 1..Len(fused) : alt_fused[i].result.score # fused[i].result.score
  /\ \E li \in 1..Len(result_lists) : \E r \in 1..Len(result_lists[li]) :
       alt_lists[li][r].score # result_lists[li][r].score

\* C10: fusion runs only after both retrievals returned; a response built
\* from a ranking exists only when both succeeded and is the fusion of both
\* lists; a finished query with a failed retrieval carries an error.
C10_NoPartialFusion ==
  /\ fusion_ran => dense_task.status = "ok" /\ sparse_task.status = "ok"
  /\ response.status = "ok" =>
       /\ dense_task.status = "ok" /\ sparse_task.status = "ok"
       /\ fusion_ran
       /\ response.results =
            ResponseResults(
              ReciprocalRankFusion(dense_task.results, sparse_task.results, h_k),
              h_limit)
  /\ (h_pc = "done" /\ (dense_task.status = "failed" \/ sparse_task.status = "failed"))
       => response.status = "error" /\ response.results = <<>> /\ ~fusion_ran

\* The query ended in an error although one retrieval returned a non-empty
\* list.
C10_Witness ==
  /\ h_pc = "done"
  /\ response.status = "error"
  /\ sparse_task.status = "failed"
  /\ dense_task.status = "ok"
  /\ dense_task.results # <<>>

\* The ids of the first n results of a list.
TopIds(list, n) == Range(IdsOf(Prefix(list, n)))

\* C11: with requested limit L both retrievals are issued with limit 2 * L;
\* the fusion is that of the complete lists they returned; the response is
\* the first L entries of the fused order, so it never holds more than L
\* results.
C11_TruncateAfterFusion ==
  /\ h_pc # "idle" =>
       /\ dense_task.limit = 2 * h_limit
       /\ sparse_task.limit = 2 * h_limit
  /\ fusion_ran =>
       fused_results =
         ReciprocalRankFusion(dense_task.results, sparse_task.results, h_k)
  /\ response.status = "ok" =>
       /\ fusion_ran
       /\ Len(response.results) <= h_limit
       /\ Len(response.results) = Min(h_limit, Len(fused_results))
       /\ \A i \in 1..Len(response.results) :
            /\ response.results[i].point_id = fused_results[i].result.point_id
            /\ response.results[i].score = fused_results[i].rrf

\* Both retrievals returned more than L results, the fused order was cut to
\* L, and the response holds a result that neither list had among its
\* first L.
C11_Witness ==
  /\ response.status = "ok"
  /\ Len(dense_task.results) > h_limit
  /\ Len(sparse_task.results) > h_limit
  /\ Len(fused_results) > h_limit
  /\ Len(response.results) = h_limit
  /\ \E i \in 1..Len(response.results) :
       /\ response.results[i].point_id \notin TopIds(dense_task.results, h_limit)
       /\ response.results[i].point_id \notin TopIds(sparse_task.results, h_limit)

\* lists with one more list put in after position pos.
InsertAt(lists, pos, list) ==
  SubSeq(lists, 1, pos) \o <<list>> \o SubSeq(lists, pos + 1, Len(lists))

\* The output of fuse on the single list L: L's ids in L's order, the
\* entry at rank r scored 1/(k + r).
IsSingleListRanking(L, k, out) ==
  /\ Len(out) = Len(L)
  /\ \A r \in 1..Len(L) :
       /\ out[r].result.point_id = L[r].point_id
       /\ out[r].rrf * (k + r) = Scale(k)

\* C12: fuse returns for no list the empty ranking, for a single list L the
\* ids of L in L's order with scores 1/(k + r); putting an empty list
\* anywhere into the input changes neither the order nor a score.
C12_FewAndEmptyLists ==
  f_pc # "idle" =>
    /\ Len(result_lists) = 0 => fused = <<>>
    /\ Len(result_lists) = 1 => IsSingleListRanking(result_lists[1], fuse_k, fused)
    /\ \A pos \in 0..Len(result_lists) :
         Fuse(InsertAt(result_lists, pos, <<>>), fuse_k) = fused

\* fuse was called on a single list of the greatest length.
C12_Witness ==
  /\ f_pc = "fused"
  /\ Len(result_lists) = 1
  /\ Len(result_lists[1]) = MaxLen
  /\ Len(fused) = MaxLen

\* The set of ids of the lists.
AllIds(lists) == UNION {Range(IdsOf(lists[li])) : li \in 1..Len(lists)}

\* out holds every id of the lists exactly once and no other id.
HoldsEachIdOnce(lists, out) ==
  /\ {out[i].result.point_id : i \in 1..Len(out)} = AllIds(lists)
  /\ \A i, j \in 1..Len(out) :
       i # j => out[i].result.point_id # out[j].result.point_id

\* For lists A and B without a common id: out has |A| + |B| entries, each
\* scored 1/(k + r) with r its rank in the list that holds it.
DisjointUnion(A, B, k, out) ==
  (Range(IdsOf(A)) \cap Range(IdsOf(B)) = {}) =>
    /\ Len(out) = Len(A) + Len(B)
    /\ \A i \in 1..Len(out) :
         LET id == out[i].result.point_id
             own == IF id \in Range(IdsOf(A)) THEN A ELSE B
         IN out[i].rrf * (k + RankOf(own, id)) = Scale(k)

\* C13: the output of fuse holds every identifier of the input lists
\* exactly once and no other identifier; for two lists without a common
\* identifier it has |A| + |B| entries, each scored by the reciprocal rank
\* of its own list alone. Holds for direct calls and for a hybrid query.
C13_UnionOfIds ==
  /\ f_pc # "idle" =>
       /\ HoldsEachIdOnce(result_lists, fused)
       /\ Len(result_lists) = 2 =>
            DisjointUnion(result_lists[1], result_lists[2], fuse_k, fused)
  /\ fusion_ran =>
       /\ HoldsEachIdOnce(HybridLists, fused_results)
       /\ DisjointUnion(dense_task.results, sparse_task.results, h_k, fused_results)

\* A hybrid query fused two lists of two results each that share no id.
C13_Witness ==
  /\ fusion_ran
  /\ Len(dense_task.results) = 2
  /\ Len(sparse_task.results) = 2
  /\ Range(IdsOf(dense_task.results)) \cap Range(IdsOf(sparse_task.results)) = {}
  /\ Len(fused_results) = 4

\* ------------------------------------------- properties of vectorization

\* A text without a non-whitespace character.
Blank(text) == Strip(text) = <<>>

\* C5 (as stated): batch_transform returns as many vectors as texts, and
\* result[i] is the vector the single-text transform returns for texts[i].
\* Stated for healthy embedders.
C5_BatchMatchesSingle ==
  (e_op = "batch" /\ e_cond = "healthy") =>
    /\ Len(e_out) = Len(e_texts)
    /\ \A i \in 1..Len(e_texts) :
         e_out[i] = MultilingualTransform(e_texts[i], e_seed, e_cond)

\* C6 (as stated): a second build of the same input, by whichever process,
\* returns the same index set and the same weights. Stated for healthy
\* embedders.
C6_SameTextSameVector ==
  (e_again.done /\ e_cond = "healthy") => e_again.out = e_out

\* The Euclidean norm of the weights lies within [0.99, 1.01].
UnitNorm(vec) ==
  /\ 99 * 99 * (FP \div 100) * (FP \div 100) <= NormSquared(vec)
  /\ NormSquared(vec) <= 101 * 101 * (FP \div 100) * (FP \div 100)

\* The text is routed to the Korean path and has a retained token there.
KoreanPathHandles(text, cond) ==
  /\ ~Blank(text)
  /\ IsKoreanText(text)
  /\ cond # "no_kiwi"
  /\ Tokenize(text, cond = "kiwi_raises") # <<>>

C8_BlankGivesEmpty ==
  /\ (e_op \in {"korean_transform", "transform"} /\ Blank(e_text)) =>
       /\ e_out = EmptyVec
       /\ e_again.done => e_again.out = EmptyVec
  /\ e_op = "batch" =>
       /\ Len(e_out) = Len(e_texts)
       /\ \A i \in 1..Len(e_texts) : Blank(e_texts[i]) => e_out[i] = EmptyVec

\* A healthy batch held a whitespace-only text next to a text that got a
\* vector.
C8_Witness ==
  /\ e_op = "batch"
  /\ e_cond = "healthy"
  /\ \E i, j \in 1..Len(e_texts) :
       /\ e_texts[i] = <<"SP", "SP">> /\ e_out[i] = EmptyVec
       /\ e_out[j] # EmptyVec

\* The router as the claim states it: the Hangul syllables (U+AC00..U+D7A3)
\* over the non-whitespace characters, at least 0.30.
ClaimedIsKorean(text) ==
  LET syllables == Len(SelectSeq(text, LAMBDA c : c \in {"Hn", "Hj"}))
      non_whitespace == Len(SelectSeq(text, LAMBDA c : ~IsWhitespace(c)))
  IN non_whitespace >= 1 /\ 10 * syllables >= 3 * non_whitespace

\* C9 (as stated): _is_korean_text is true iff the text has a
\* non-whitespace character and syllables / non-whitespace >= 0.30. Stated
\* for texts of syllables, Latin letters, spaces and newlines.
C9_RatioOfNonWhitespace ==
  (e_op = "detect" /\ Range(e_text) \subseteq TextChars) =>
    (e_out <=> ClaimedIsKorean(e_text))

\* The characters of a text that are not whitespace.
NonWhitespace(text) == SelectSeq(text, LAMBDA c : ~IsWhitespace(c))

RECURSIVE Concat(_)
Concat(seqs) == IF seqs = <<>> THEN <<>> ELSE Head(seqs) \o Concat(Tail(seqs))

\* The number of maximal runs of non-whitespace characters of a text.
Runs(text) ==
  Cardinality({i \in 1..Len(text) :
                 ~IsWhitespace(text[i]) /\ (i = 1 \/ IsWhitespace(text[i - 1]))})

\* tokens are the whitespace-split pieces of text: one per run, each a
\* non-empty stretch of the text without whitespace, together all of the
\* text's non-whitespace characters in order.
IsWhitespaceSplit(text, tokens) ==
  /\ Len(tokens) = Runs(text)
  /\ Concat(tokens) = NonWhitespace(text)
  /\ \A t \in 1..Len(tokens) :
       /\ tokens[t] # <<>>
       /\ \A c \in Range(tokens[t]) : ~IsWhitespace(c)
       /\ \E i \in 1..Len(text) :
            /\ i + Len(tokens[t]) - 1 <= Len(text)
            /\ SubSeq(text, i, i + Len(tokens[t]) - 1) = tokens[t]

\* C14: _tokenize returns and never raises; when the analyzer raises on a
\* text with a non-whitespace character the result is the whitespace-split
\* pieces of the text, and transform on such a text returns a vector with
\* at least one entry, at most one per piece, all weights positive.
C14_TokenizeTotal ==
  /\ e_op = "tokenize" =>
       /\ ~e_out.raised
       /\ Blank(e_text) => e_out.tokens = <<>>
       /\ (e_analysis.raised /\ ~Blank(e_text)) =>
            IsWhitespaceSplit(e_text, e_out.tokens)
  /\ (e_op = "korean_transform" /\ e_cond = "kiwi_raises" /\ ~Blank(e_text)) =>
       /\ e_out # EmptyVec
       /\ Cardinality(DOMAIN e_out) <= Runs(e_text)
       /\ \A i \in DOMAIN e_out : e_out[i] > 0

\* The analyzer raised on a text of two words and _tokenize returned both.
C14_Witness ==
  /\ e_op = "tokenize"
  /\ e_analysis.raised
  /\ \E i \in 1..Len(e_text) : IsWhitespace(e_text[i])
  /\ ~e_out.raised
  /\ Len(e_out.tokens) = 2

\* The allow-list as the claim gives it: nouns NN*, verb VV (regular and
\* irregular), adjective VA, determiner MM, adverb MAG, root XR.
ClaimedAllowList ==
  { <<"N", "N", "G">>, <<"N", "N", "P">>, <<"N", "N", "B">>, <<"V", "V">>,
    <<"V", "V", "-", "I">>, <<"V", "A">>, <<"M", "M">>, <<"M", "A", "G">>,
    <<"X", "R">> }

ForeignTag == <<"S", "L">>

\* The tokens the claim keeps of an analyzer result: those of an allow-list
\* tag as they are, those tagged SL lower-cased, in the analyzer's order.
ClaimedTokens(result) ==
  LET kept == SelectSeq(result, LAMBDA m : m.tag \in ClaimedAllowList \/ m.tag = ForeignTag)
  IN [i \in 1..Len(kept) |->
        IF kept[i].tag = ForeignTag THEN Lower(kept[i].form) ELSE kept[i].form]

\* C15: of the analyzer's tokens _tokenize keeps exactly those whose tag is
\* in the allow-list or is SL, the former with their surface form, the
\* latter lower-cased, in the analyzer's order; a token of any other tag is
\* not in the output.
C15_TagFilter ==
  (e_op = "tokenize" /\ ~e_analysis.raised /\ ~Blank(e_text)) =>
    /\ ~e_out.raised
    /\ e_out.tokens = ClaimedTokens(e_analysis.result)

\* The analyzer returned an allow-list token, then a token of another tag,
\* then a foreign word with a capital letter: two were kept, the foreign
\* word lower-cased.
C15_Witness ==
  /\ e_op = "tokenize"
  /\ ~e_analysis.raised
  /\ Len(e_analysis.result) = 3
  /\ e_analysis.result[1].tag \in ClaimedAllowList
  /\ e_analysis.result[2].tag \notin ClaimedAllowList \cup {ForeignTag}
  /\ e_analysis.result[3].tag = ForeignTag
  /\ "LA" \in Range(e_analysis.result[3].form)
  /\ e_out.tokens = <<e_analysis.result[1].form, <<"la", "la">> >>

\* Every weight of the vector is strictly positive.
AllPositive(vec) == \A i \in DOMAIN vec : vec[i] > 0

\* C16 (as stated): every weight of a vector a construction routine
\* returns is strictly positive, whatever the fallback embedder delivered.
C16_WeightsPositive ==
  /\ e_op \in {"korean_transform", "transform"} => AllPositive(e_out)
  /\ e_op = "batch" => \A i \in 1..Len(e_out) : AllPositive(e_out[i])

\* C17: generate_sparse_embedding and generate_query_sparse_embedding
\* return the sentinel {0: 1.0} for empty and for whitespace-only text
\* without invoking the vectorizer; the vectorizer's routines return the
\* empty mapping, not the sentinel, for such a text; for any other text the
\* caller returns what the vectorizer returned.
C17_SentinelAtCallerOnly ==
  \A r \in 1..MaxRequests :
    /\ (g_req[r].pc # "idle" /\ Blank(g_req[r].text)) =>
         /\ g_req[r].pc = "done"
         /\ g_req[r].out = SentinelVec
         /\ ~g_req[r].invoked
         /\ g_req[r].ran_on = "none"
         /\ \A seed \in HashSeeds, cond \in Conditions :
              /\ MultilingualTransform(g_req[r].text, seed, cond) = EmptyVec
              /\ KoreanTransform(g_req[r].text, seed, cond = "kiwi_raises") = EmptyVec
              /\ BatchTransform(<<g_req[r].text>>, seed, cond) = <<EmptyVec>>
         /\ EmptyVec # SentinelVec
    /\ (g_req[r].pc = "done" /\ ~Blank(g_req[r].text)) =>
         /\ g_req[r].invoked
         /\ g_req[r].out = MultilingualTransform(g_req[r].text, g_req[r].seed,
                                                 g_req[r].cond)

\* A query of whitespace only was answered with the sentinel while another
\* request's text went through the vectorizer.
C17_Witness ==
  \E r, q \in 1..MaxRequests :
    /\ g_req[r].pc = "done"
    /\ g_req[r].fn = "query"
    /\ g_req[r].text = <<"SP", "NL">>
    /\ g_req[r].out = SentinelVec
    /\ g_req[q].pc = "done"
    /\ g_req[q].invoked
    /\ g_req[q].out # SentinelVec

\* The workers the vectorizer may run on: the default thread offload, the
\* configured thread pool, the configured process pool.
PoolWorkers == {"to_thread", "thread", "process"}

\* C20: the vectorizer call for a text is never run by the event loop: a
\* call that runs or ran was handed to the asyncio.to_thread offload when no
\* executor is configured and to the configured executor otherwise, at
\* most PoolSize calls run at once, and a request ends only after the worker
\* returned.
C20_OffloadedToPool ==
  /\ \A r \in 1..MaxRequests :
       /\ g_req[r].pc \in {"queued", "running"} \/ g_req[r].invoked =>
            /\ g_req[r].target \in PoolWorkers
            /\ g_req[r].target = (IF g_executor = "none" THEN "to_thread" ELSE g_executor)
       /\ g_req[r].pc = "running" \/ g_req[r].invoked =>
            g_req[r].ran_on = g_req[r].target
       /\ g_req[r].pc = "queued" => g_req[r].ran_on = "none"
       /\ (g_req[r].pc = "done" /\ ~Blank(g_req[r].text)) => g_req[r].invoked
  /\ Cardinality(Running) <= PoolSize

\* While a worker of the configured executor runs one request's
\* vectorization, the event loop has taken another request, which waits
\* for a worker.
C20_Witness ==
  \E r, q \in 1..MaxRequests :
    /\ g_executor # "none"
    /\ g_req[r].pc = "running"
    /\ g_req[r].ran_on = g_executor
    /\ g_req[q].pc = "queued"

\* The call is one of KoreanSparseEmbedding.transform.
KoreanCall == e_op \in {"korean_transform", "korean_transform_analyzed"}

\* The tokens _tokenize returned in the call.
CallTokens == TokenizeOutcome(e_text, e_analysis).tokens

\* Every index of vec is in 0 .. 2^31 - 1 and vec has at most one entry
\* per distinct token.
IndicesInRange(vec, tokens) ==
  /\ \A i \in DOMAIN vec : 0 <= i /\ i <= MaxIndex
  /\ Cardinality(DOMAIN vec) <= Cardinality(Range(tokens))

\* C18: every index of a vector built by the Korean path is an integer in
\* 0 .. 2^31 - 1, whatever the sign of the term's hash, and the vector has
\* no more entries than the text has distinct retained terms.
C18_IndexRange ==
  /\ KoreanCall => IndicesInRange(e_out, CallTokens)
  /\ (e_op = "transform" /\ KoreanPathHandles(e_text, e_cond)) =>
       IndicesInRange(e_out, Tokenize(e_text, e_cond = "kiwi_raises"))

\* A term of the text had a negative hash, and two terms shared an index.
C18_Witness ==
  /\ KoreanCall
  /\ \E term \in Range(CallTokens) : PyHash(e_seed, term).neg
  /\ Cardinality(DOMAIN e_out) >= 1
  /\ Cardinality(DOMAIN e_out) < Cardinality(Range(CallTokens))

\* The frequency of a term among the tokens.
FreqOf(tokens, term) == Cardinality({i \in 1..Len(tokens) : tokens[i] = term})

\* The final weight of a term of the call: the entry at its index.
WeightOf(term) == e_out[TermHash(e_seed, term)]

\* No other term of the call shares the term's index.
Alone(term) ==
  \A other \in Range(CallTokens) \ {term} :
    TermHash(e_seed, other) # TermHash(e_seed, term)

\* Weights w1, w2 of terms of frequencies f1 > f2: w1 > w2, w1/w2 < f1/f2,
\* and w1/w2 = (1 + ln f1)/(1 + ln f2) up to one part in a thousand.
SublinearPair(w1, f1, w2, f2) ==
  /\ w1 > w2
  /\ w1 * f2 < w2 * f1
  /\ Abs(w1 * (FP + LnFP(f2)) - w2 * (FP + LnFP(f1)))
       <= (w2 * (FP + LnFP(f1))) \div 1000

\* Every weight lies in (0, 1].
WeightsInUnitInterval(vec) == \A i \in DOMAIN vec : 0 < vec[i] /\ vec[i] <= FP

\* C19 (amended): within one text, for two retained terms of frequencies
\* f1 > f2 >= 1 neither of which shares its index with another term of
\* the text, the weight of the first is greater, the ratio is less than
\* f1/f2 and equals (1 + ln f1)/(1 + ln f2); two such terms of equal
\* frequency have equal weights; every weight is in (0, 1].
C19_SublinearWithoutCollision ==
  KoreanCall =>
    /\ WeightsInUnitInterval(e_out)
    /\ \A t1, t2 \in Range(CallTokens) :
         (Alone(t1) /\ Alone(t2)) =>
           /\ FreqOf(CallTokens, t1) > FreqOf(CallTokens, t2) =>
                SublinearPair(WeightOf(t1), FreqOf(CallTokens, t1),
                              WeightOf(t2), FreqOf(CallTokens, t2))
           /\ FreqOf(CallTokens, t1) = FreqOf(CallTokens, t2) =>
                WeightOf(t1) = WeightOf(t2)

\* A text held a term three times and another term once, on different
\* indices.
C19_Witness ==
  /\ KoreanCall
  /\ \E t1, t2 \in Range(CallTokens) :
       /\ Alone(t1) /\ Alone(t2)
       /\ FreqOf(CallTokens, t1) = 3
       /\ FreqOf(CallTokens, t2) = 1
       /\ WeightOf(t1) > WeightOf(t2)

\* C19 (as stated): the same for any two retained terms that hash to
\* different indices, whatever other terms the text holds.
C19_Sublinear ==
  KoreanCall =>
    /\ WeightsInUnitInterval(e_out)
    /\ \A t1, t2 \in Range(CallTokens) :
         /\ (/\ FreqOf(CallTokens, t1) > FreqOf(CallTokens, t2)
             /\ TermHash(e_seed, t1) # TermHash(e_seed, t2)) =>
              SublinearPair(WeightOf(t1), FreqOf(CallTokens, t1),
                            WeightOf(t2), FreqOf(CallTokens, t2))
         /\ FreqOf(CallTokens, t1) = FreqOf(CallTokens, t2) =>
              WeightOf(t1) = WeightOf(t2)

\* ------------------------------------------ properties of the request body

\* C22: a dense+sparse RRF request whose rrf_k is outside 1..100 is answered
\* with a validation error while neither retrieval was issued and fusion
\* was not run; every request that got further, and so every fusion run
\* for a request, has an rrf_k in 1..100, for which k + rank is positive
\* at every rank.
C22_RrfKValidated ==
  /\ (h_pc # "idle" /\ (h_k < 1 \/ h_k > 100)) =>
        /\ h_pc = "rejected"
        /\ response.status = "invalid"
        /\ dense_task = Pending
        /\ sparse_task = Pending
        /\ ~fusion_ran
  /\ response.status = "invalid" => (h_k < 1 \/ h_k > 100)
  /\ fusion_ran => \A rank \in 1..MaxRank : h_k + rank > 0

\* A request with rrf_k = 0, for which no retrieval was started, was refused.
C22_Witness ==
  /\ h_pc = "rejected"
  /\ response.status = "invalid"
  /\ h_k = 0

\* ---------------------------------- properties of the stored collections

\* Both vectors of a point are the embeddings of a text.
VectorsOfText(point, text) ==
  /\ point.dense = GenerateDenseEmbedding(text)
  /\ point.sparse = GenerateSparseEmbedding(text)

\* C21: after creates and updates that completed one after another, the dense
\* and the sparse vector of every stored summary are the embeddings of its
\* stored summary_text, and those of the chunk are the embeddings of its
\* stored paragraph_texts.
C21_VectorsFollowText ==
  /\ \A id \in PointIds :
       s_store[id].present =>
         VectorsOfText(s_store[id], s_store[id].payload.summary_text)
  /\ (c_point.present /\ ~c_overlap /\ InProgress = {}) =>
       VectorsOfText(c_point, c_point.paragraph_texts)

\* An update naming only summary_text was the last request on a summary
\* whose text it set.
C21_Witness ==
  /\ s_last.op = "update"
  /\ s_last.status = 200
  /\ s_last.fields_set = {"summary_text"}
  /\ s_store[s_last.id].payload.summary_text = "tb"
  /\ s_store[s_last.id].dense = GenerateDenseEmbedding("tb")

\* C23: a create-summary request is answered 201 with a point_id that is
\* the supplied summary_id when that parses as a UUID and otherwise a
\* generated UUID other than the supplied string; the returned payload has
\* summary_id equal to point_id and the submitted summary_text, and is the
\* payload stored under point_id.
C23_CreateSummaryId ==
  s_last.op = "create" =>
    /\ s_last.status = 201
    /\ IsUuid(s_last.id)
    /\ IF IsUuid(s_last.supplied)
       THEN s_last.id = s_last.supplied
       ELSE s_last.id # s_last.supplied /\ s_last.id \in GeneratedUuids
    /\ s_last.payload.summary_id = s_last.id
    /\ s_last.payload.summary_text = s_expect[s_last.id].summary_text
    /\ s_store[s_last.id].present
    /\ s_store[s_last.id].payload = s_last.payload

\* C24: an id that was deleted and not stored again holds no point and a
\* GET of it is answered 404; every DELETE is answered 204, also of an id
\* that holds no point; every id that was stored and not deleted since
\* holds a point whose payload is what it was stored with and its updates
\* asked for,
\* and a GET of it returns that payload.
C24_DeleteExactlyOne ==
  /\ \A id \in s_deleted : ~s_store[id].present
  /\ s_last.op = "delete" => s_last.status = 204 /\ s_last.id \in s_deleted
  /\ (s_last.op = "get" /\ s_last.id \in s_deleted) => s_last.status = 404
  /\ \A id \in PointIds \ s_deleted :
       s_expect[id] # NoPayload =>
         /\ s_store[id].present
         /\ s_store[id].payload = s_expect[id]
         /\ (s_last.op = "get" /\ s_last.id = id) =>
              s_last.status = 200 /\ s_last.payload = s_expect[id]

\* One of two stored summaries was deleted and a GET of it answered 404
\* while the other is still stored.
C24_Witness ==
  /\ s_last.op = "get"
  /\ s_last.id = "u1"
  /\ "u1" \in s_deleted
  /\ s_last.status = 404
  /\ s_store["g1"].present

\* C25: every stored summary's payload holds, field by field, the value of
\* the last update that named the field, or the value it was stored
\* with; an update
\* of an id that holds no point is answered 404 and leaves the id without
\* a point, and an update is answered 404 only then.
C25_PartialUpdates ==
  /\ \A id \in PointIds :
       /\ s_store[id].present => s_store[id].payload = s_expect[id]
       /\ ~s_store[id].present => s_expect[id] = NoPayload
  /\ s_last.op = "update" =>
       /\ s_last.status \in {200, 404}
       /\ s_last.status = 404 <=> ~s_store[s_last.id].present
       /\ s_last.status = 200 => s_last.payload = s_expect[s_last.id]

\* An update naming only summary_text was applied to a summary whose
\* file_id is set.
C25_Witness ==
  /\ s_last.op = "update"
  /\ s_last.status = 200
  /\ s_last.fields_set = {"summary_text"}
  /\ s_store[s_last.id].payload.file_id = 51
  /\ s_store[s_last.id].payload.project_id = 1002

\* C28: when all updates of the chunk have completed, also updates that
\* ran concurrently, the stored vectors are the embeddings of the stored
\* paragraph_texts.
C28_ConcurrentUpdatesConsistent ==
  (c_point.present /\ \A u \in 1..MaxUpdates : c_upd[u].pc \in {"idle", "done"}) =>
    VectorsOfText(c_point, c_point.paragraph_texts)

\* ------------------------------------- properties of the dense semaphore

\* C26: at every moment at most settings.embedding_concurrency calls to
\* the provider are in flight, whatever function made them, and the free
\* slots are exactly those not held by a call in flight, also after calls
\* that failed; every call waiting for a slot gets one.
C26_BoundedInFlight ==
  /\ [](/\ Cardinality(InFlight) <= EmbeddingConcurrency
        /\ d_sem + Cardinality(InFlight) = EmbeddingConcurrency)
  /\ \A c \in 1..MaxCalls :
       (d_call[c].pc = "waiting") ~> (d_call[c].pc = "in_flight")

\* A call failed, and all slots, the one it gave back among them, are
\* held by calls in flight made through different functions.
C26_Witness ==
  /\ \E c \in 1..MaxCalls : d_call[c].pc = "raised"
  /\ d_sem = 0
  /\ Cardinality(InFlight) = EmbeddingConcurrency
  /\ \E a, b \in InFlight : d_call[a].fn # d_call[b].fn

\* ------------------------------------------ properties of the singleton

\* C29: over any interleaving of first calls from worker threads the
\* vectorizer is constructed at most once, and all calls that ran used the
\* same instance.
C29_ConstructedOnce ==
  /\ i_built <= 1
  /\ \A t, u \in 1..MaxThreads :
       (i_thread[t].pc = "done" /\ i_thread[u].pc = "done") =>
         i_thread[t].used = i_thread[u].used

\* ------------------------------------------- properties of the batch call

\* The positions of a batch that hold a text of the Korean path, or of the
\* other path.
PositionsOf(texts, korean) ==
  {i \in 1..Len(texts) : IsKoreanText(texts[i]) = korean}

\* C30: batch_transform does not raise and returns one mapping per text;
\* when the Korean path or the fallback path raised, every mapping is
\* empty; when the fallback embedder delivered one vector fewer than it
\* was given, the last of its positions holds an empty mapping and every
\* other position holds its vector; and the positions of a path whose
\* embedder is missing hold empty mappings.
C30_BatchTotal ==
  e_op = "batch" =>
    /\ ~e_raised
    /\ Len(e_out) = Len(e_texts)
    /\ ((e_cond = "korean_raises" /\ PositionsOf(e_texts, TRUE) # {})
        \/ (e_cond = "fastembed_raises" /\ PositionsOf(e_texts, FALSE) # {})) =>
         \A i \in 1..Len(e_out) : e_out[i] = EmptyVec
    /\ e_cond = "fastembed_short" =>
         /\ \A i \in PositionsOf(e_texts, TRUE) :
              e_out[i] = KoreanTransform(e_texts[i], e_seed, FALSE)
         /\ \A i \in PositionsOf(e_texts, FALSE) :
              e_out[i] = IF \E j \in PositionsOf(e_texts, FALSE) : j > i
                         THEN FastEmbedEmbed(e_texts[i], "healthy")
                         ELSE EmptyVec
    /\ e_cond = "no_kiwi" =>
         \A i \in PositionsOf(e_texts, TRUE) : e_out[i] = EmptyVec
    /\ e_cond = "no_fastembed" =>
         \A i \in PositionsOf(e_texts, FALSE) : e_out[i] = EmptyVec

\* The fallback path raised on a batch whose first text the Korean path
\* had turned into a vector: both positions came back empty.
C30_Witness ==
  /\ e_op = "batch"
  /\ e_cond = "fastembed_raises"
  /\ e_texts = << <<"Hn">>, <<"LA">> >>
  /\ KoreanTransform(<<"Hn">>, e_seed, FALSE) # EmptyVec
  /\ e_out = <<EmptyVec, EmptyVec>>

\* ------------------------------- properties of the vectors handed onward

\* C27 (as stated): the mapping generate_sparse_embedding or
\* generate_query_sparse_embedding returns, which its caller hands to the
\* index, has at least one entry, whatever the text and the embedders.
C27_NeverEmpty ==
  \A r \in 1..MaxRequests :
    g_req[r].pc = "done" => g_req[r].out # EmptyVec

====
